---- MODULE Spec2Model ----
(***************************************************************************)
(* A model of the gateway-facing helpers of deep_space: the send helper    *)
(* (send_message, get_fee_info, simulate_tx, send_transaction,             *)
(* wait_for_tx), the queries it is built from (get_account_info,           *)
(* get_latest_block, get_block_params, get_message_args), the block wait   *)
(* (get_chain_status, wait_for_next_block) and the per-call timeouts of    *)
(* the client modules.  The node is the environment: its answers are       *)
(* drawn nondeterministically at every gateway call.                       *)
(***************************************************************************)
EXTENDS Integers, Sequences, FiniteSets, TLC

(***************************************************************************)
(* Bounds of the model.                                                    *)
(***************************************************************************)
\* u64 is modelled as WordBits bits wide, i64 as WordBits bits two's complement
WordBits == 8
\* Contact.timeout, in seconds
ContactTimeout == 1
\* the bytes of a private key and of a SHA-256 digest (32 in the program)
KeyBytes == 2
\* the bits of a child number, a u32 in the program
IndexBits == 8
\* the wait_timeout given to send_message, in seconds
WaitSecs == 2
\* the timeout given to wait_for_next_block, in seconds
BlockWaitSecs == 3
\* highest block height the node reports to wait_for_next_block
MaxHeight == 2

U64Modulus == 2 ^ WordBits
U64Max == U64Modulus - 1
I64Max == 2 ^ (WordBits - 1) - 1

(***************************************************************************)
(* Option and Result values.  An Option is a tuple of length 0 or 1, so    *)
(* that None compares with every Some.                                     *)
(***************************************************************************)
None == << >>
Some(v) == << v >>
IsSome(o) == o # << >>
Unwrap(o) == o[1]

Ok(v) == [kind |-> "Ok", payload |-> << v >>]
Err(e) == [kind |-> "Err", payload |-> << e >>]
\* a panic unwinds the calling task: the call neither returns Ok nor Err
Panic(site) == [kind |-> "Panic", payload |-> << site >>]
IsOk(r) == r.kind = "Ok"
IsErr(r) == r.kind = "Err"
IsPanic(r) == r.kind = "Panic"
Val(r) == r.payload[1]

(***************************************************************************)
(* CosmosGrpcError                                                         *)
(***************************************************************************)
Error(k, p) == [kind |-> k, payload |-> p]
NoToken == Error("NoToken", << >>)
BadResponse(msg) == Error("BadResponse", << msg >>)
ConnectionError == Error("ConnectionError", << "transport" >>)
RequestError(status) == Error("RequestError", << status >>)
ChainNotRunning == Error("ChainNotRunning", << >>)
NodeNotSynced == Error("NodeNotSynced", << >>)
DecodeError == Error("DecodeError", << >>)
NoBlockProduced(time) == Error("NoBlockProduced", << time >>)
TransactionFailed(tx, time, sdk_error) == Error("TransactionFailed", << tx, time, sdk_error >>)
InsufficientFees(fee_info) == Error("InsufficientFees", << fee_info >>)
GasRequiredExceedsBlockMaximum(max, required) == Error("GasRequiredExceedsBlockMaximum", << max, required >>)
\* the conversion of tokio's Elapsed that the first `?` of `timeout(..).await??` applies
FromElapsed == Error("ConnectionError", << "elapsed" >>)
\* the conversion of TryFromIntError that `u64::try_from(..)?` applies
FromTryFromIntError == Error("BadResponse", << "TryFromIntError" >>)

(***************************************************************************)
(* What the node can answer to one gateway call.                           *)
(***************************************************************************)
Connected == [kind |-> "connected", payload |-> << >>]
TransportFailure == [kind |-> "transport_failure", payload |-> << >>]
\* the node does not answer within Contact.timeout
NoAnswer == [kind |-> "no_answer", payload |-> << >>]
Status(code, message) == [kind |-> "status", payload |-> << [code |-> code, message |-> message] >>]
Reply(v) == [kind |-> "reply", payload |-> << v >>]

TonicErrorCodes ==
    { "Cancelled", "Unknown", "InvalidArgument", "DeadlineExceeded", "NotFound",
      "AlreadyExists", "PermissionDenied", "ResourceExhausted", "FailedPrecondition",
      "Aborted", "OutOfRange", "Unimplemented", "Internal", "Unavailable", "DataLoss",
      "Unauthenticated" }

ConnectAnswers == { Connected, TransportFailure, NoAnswer }

\* `timeout(self.get_timeout(), call).await??` on an answer that is not a reply
GrpcFailure(ans) ==
    CASE ans.kind = "no_answer" -> FromElapsed
      [] ans.kind = "transport_failure" -> ConnectionError
      [] ans.kind = "status" -> RequestError(ans.payload[1])

(***************************************************************************)
(* SdkErrorCode and the check of a TxResponse (error.rs, utils.rs)         *)
(***************************************************************************)
SdkErrorNames ==
    << "ErrInternal", "ErrTxDecode", "ErrInvalidSequence", "ErrUnauthorized",
       "ErrInsufficientFunds", "ErrUnknownRequest", "ErrInvalidAddress", "ErrInvalidPubKey",
       "ErrUnknownAddress", "ErrInvalidCoins", "ErrOutOfGas", "ErrMemoTooLarge",
       "ErrInsufficientFee", "ErrTooManySignatures", "ErrNoSignatures", "ErrJsonMarshal",
       "ErrJsonUnmarshal", "ErrInvalidRequest", "ErrTxInMempoolCache", "ErrMempoolIsFull",
       "ErrTxTooLarge", "ErrKeyNotFound", "ErrWrongPassword", "ErrInvalidSigner",
       "ErrInvalidGasAdjustment", "ErrInvalidHeight", "ErrInvalidVersion", "ErrInvalidChainId",
       "ErrInvalidType", "ErrTxTimeoutHeight", "ErrUnknownExtensionOptions", "ErrWrongSequence",
       "ErrPackAny", "ErrUnpackAny", "ErrLogic", "ErrConflict", "ErrNotSupported",
       "ErrNotFound", "ErrIo", "ErrAppConfig" >>

\* the variants of enum SdkErrorCode, in the order of their declaration
SdkErrorCode ==
    << "ErrInternal", "ErrTxDecode", "ErrInvalidSequence", "ErrUnauthorized",
       "ErrInsufficientFunds", "ErrUnknownRequest", "ErrInvalidAddress", "ErrInvalidPubKey",
       "ErrUnknownAddress", "ErrInvalidCoins", "ErrOutOfGas", "ErrMemoTooLarge",
       "ErrInsufficientFee", "ErrTooManySignatures", "ErrNoSignatures", "ErrJsonMarshal",
       "ErrJsonUnmarshal", "ErrInvalidRequest", "ErrTxInMempoolCache", "ErrMempoolIsFull",
       "ErrTxTooLarge", "ErrKeyNotFound", "ErrWrongPassword", "ErrInvalidSigner",
       "ErrInvalidGasAdjustment", "ErrInvalidHeight", "ErrInvalidVersion", "ErrInvalidChainId",
       "ErrInvalidType", "ErrTxTimeoutHeight", "ErrUnknownExtensionOptions", "ErrWrongSequence",
       "ErrPackAny", "ErrUnpackAny", "ErrLogic", "ErrConflict",
       "ErrNotSupported", "ErrNotFound", "ErrIo", "ErrPanic",
       "ErrAppConfig" >>

get_code(c) ==
    CASE c = "ErrInternal" -> 1
      [] c = "ErrTxDecode" -> 2
      [] c = "ErrInvalidSequence" -> 3
      [] c = "ErrUnauthorized" -> 4
      [] c = "ErrInsufficientFunds" -> 5
      [] c = "ErrUnknownRequest" -> 6
      [] c = "ErrInvalidAddress" -> 7
      [] c = "ErrInvalidPubKey" -> 8
      [] c = "ErrUnknownAddress" -> 9
      [] c = "ErrInvalidCoins" -> 10
      [] c = "ErrOutOfGas" -> 11
      [] c = "ErrMemoTooLarge" -> 12
      [] c = "ErrInsufficientFee" -> 13
      [] c = "ErrTooManySignatures" -> 14
      [] c = "ErrNoSignatures" -> 15
      [] c = "ErrJsonMarshal" -> 16
      [] c = "ErrJsonUnmarshal" -> 17
      [] c = "ErrInvalidRequest" -> 18
      [] c = "ErrTxInMempoolCache" -> 19
      [] c = "ErrMempoolIsFull" -> 20
      [] c = "ErrTxTooLarge" -> 21
      [] c = "ErrKeyNotFound" -> 22
      [] c = "ErrWrongPassword" -> 23
      [] c = "ErrInvalidSigner" -> 24
      [] c = "ErrInvalidGasAdjustment" -> 25
      [] c = "ErrInvalidHeight" -> 26
      [] c = "ErrInvalidVersion" -> 27
      [] c = "ErrInvalidChainId" -> 28
      [] c = "ErrInvalidType" -> 29
      [] c = "ErrTxTimeoutHeight" -> 30
      [] c = "ErrUnknownExtensionOptions" -> 31
      [] c = "ErrWrongSequence" -> 32
      [] c = "ErrPackAny" -> 33
      [] c = "ErrUnpackAny" -> 34
      [] c = "ErrLogic" -> 35
      [] c = "ErrConflict" -> 36
      [] c = "ErrNotSupported" -> 37
      [] c = "ErrNotFound" -> 38
      [] c = "ErrIo" -> 39
      [] c = "ErrPanic" -> 111222
      [] c = "ErrAppConfig" -> 40

\* from_code numbering the variants in the order of their declaration
from_code_in_declaration_order(code) ==
    IF code \in 1..Len(SdkErrorCode) THEN Some(SdkErrorCode[code]) ELSE None

from_code(code) ==
    IF code \in 1..40 THEN Some(SdkErrorNames[code])
    ELSE IF code = 111222 THEN Some("ErrPanic")
    ELSE None

\* `x as u64` on an i64
AsU64(x) == IF x < 0 THEN x + U64Modulus ELSE x

\* Text is a sequence of characters.  The characters of the texts the model
\* draws: decimal digits, alphabetic characters, the space and a sign.
DigitValue ==
    [ ch \in { "0", "1", "2", "3", "4", "5", "6", "7", "8", "9" } |->
        CASE ch = "0" -> 0 [] ch = "1" -> 1 [] ch = "2" -> 2 [] ch = "3" -> 3
          [] ch = "4" -> 4 [] ch = "5" -> 5 [] ch = "6" -> 6 [] ch = "7" -> 7
          [] ch = "8" -> 8 [] ch = "9" -> 9 ]
Digits == DOMAIN DigitValue
Alphabetic ==
    { "a", "b", "c", "d", "e", "f", "g", "h", "i", "j", "k", "l", "m",
      "n", "o", "p", "q", "r", "s", "t", "u", "v", "w", "x", "y", "z",
      "A", "B", "C", "D", "E", "F", "G", "H", "I", "J", "K", "L", "M",
      "N", "O", "P", "Q", "R", "S", "T", "U", "V", "W", "X", "Y", "Z" }
Whitespace == { " " }

\* str::trim
RECURSIVE Trim(_)
Trim(text) ==
    IF text = << >> THEN text
    ELSE IF Head(text) \in Whitespace THEN Trim(Tail(text))
    ELSE IF text[Len(text)] \in Whitespace THEN Trim(SubSeq(text, 1, Len(text) - 1))
    ELSE text

\* the value of a nonempty text of decimal digits
RECURSIVE DecimalValue(_)
DecimalValue(text) ==
    IF text = << >> THEN 0
    ELSE 10 * DecimalValue(SubSeq(text, 1, Len(text) - 1)) + DigitValue[text[Len(text)]]

\* impl FromStr for Coin, splitting before the first character that is no digit
CoinFromStrAtFirstNonDigit(item) ==
    LET value == Trim(item)
        other == { idx \in 1..Len(value) : value[idx] \notin Digits }
        split_idx == IF other = { } THEN 0
                     ELSE (CHOOSE idx \in other : \A o \in other : idx <= o) - 1
        amount == SubSeq(value, 1, split_idx)
        denom == SubSeq(value, split_idx + 1, Len(value))
    IN  IF amount # << >> /\ \A k \in 1..Len(amount) : amount[k] \in Digits
        THEN Some([amount |-> DecimalValue(amount), denom |-> denom])
        ELSE None

\* impl FromStr for Coin: the text is split before its first alphabetic
\* character (at 0 when it has none) and the part before is parsed as the
\* amount
CoinFromStr(item) ==
    LET value == Trim(item)
        alpha == { idx \in 1..Len(value) : value[idx] \in Alphabetic }
        split_idx == IF alpha = { } THEN 0
                     ELSE (CHOOSE idx \in alpha : \A other \in alpha : idx <= other) - 1
        amount == SubSeq(value, 1, split_idx)
        denom == SubSeq(value, split_idx + 1, Len(value))
    IN  IF amount # << >> /\ \A k \in 1..Len(amount) : amount[k] \in Digits
        THEN Some([amount |-> DecimalValue(amount), denom |-> denom])
        ELSE None

\* str::split(sep): the parts of the text between the separators, one part
\* when the text holds none
RECURSIVE Split(_, _)
Split(text, sep) ==
    LET at == { idx \in 1..Len(text) : text[idx] = sep }
    IN  IF at = { } THEN << text >>
        ELSE LET first == CHOOSE idx \in at : \A other \in at : idx <= other
             IN  << SubSeq(text, 1, first - 1) >>
                 \o Split(SubSeq(text, first + 1, Len(text)), sep)

\* the loop over amounts.split(','): the items that parse as a Coin, in order
RECURSIVE ParsedCoins(_)
ParsedCoins(items) ==
    IF items = << >> THEN << >>
    ELSE LET coin == CoinFromStr(Head(items))
         IN  (IF IsSome(coin) THEN << Unwrap(coin) >> ELSE << >>) \o ParsedCoins(Tail(items))

determine_min_fees_and_gas(input) ==
    IF input.gas_used > input.gas_wanted
    THEN Some([kind |-> "InsufficientGas", payload |-> << AsU64(input.gas_used) >>])
    ELSE IF input.codespace = "sdk"
    THEN LET err == from_code(input.code)
         IN  IF IsSome(err) /\ Unwrap(err) = "ErrInsufficientFee"
             THEN LET parts == Split(input.raw_log, ":")
                  IN  IF Len(parts) >= 3
                      THEN Some([kind |-> "InsufficientFees",
                                 payload |-> << ParsedCoins(Split(parts[3], ",")) >>])
                      ELSE None
             ELSE None
    ELSE None

\* check_for_sdk_error without the comparison of the codespace
check_for_sdk_error_of_any_codespace(input) ==
    LET v == determine_min_fees_and_gas(input)
    IN  IF IsSome(v) THEN Err(InsufficientFees(Unwrap(v)))
        ELSE IF IsSome(from_code(input.code))
        THEN Err(TransactionFailed(input, 0, from_code(input.code)))
        ELSE Ok("unit")

check_for_sdk_error(input) ==
    LET v == determine_min_fees_and_gas(input)
    IN  IF IsSome(v) THEN Err(InsufficientFees(Unwrap(v)))
        ELSE IF input.codespace = "sdk" /\ IsSome(from_code(input.code))
        THEN Err(TransactionFailed(input, 0, from_code(input.code)))
        ELSE Ok("unit")

(***************************************************************************)
(* get_account_info (client/auth/mod.rs, client/types.rs)                  *)
(***************************************************************************)
AccountTypeNames ==
    << "ProtoBaseAccount", "ContinuousVestingAccount", "PeriodicVestingAccount",
       "DelayedVestingAccount", "ModuleAccount", "PermenantLockedAccount" >>

\* value is an Any: its type_url, the set of account messages its bytes decode
\* as, and the base account those bytes carry
decode_from_any(value) ==
    LET ok(n) == AccountTypeNames[n] \in value.decodes
        as(n) == Ok([variant |-> AccountTypeNames[n], base |-> value.base])
    IN  IF ok(1) THEN as(1)
        ELSE IF ok(2) /\ ok(3)
        THEN (IF value.type_url = "/cosmos.vesting.v1beta1.ContinuousVestingAccount"
              THEN as(2) ELSE as(3))
        ELSE IF ok(2) THEN as(2)
        ELSE IF ok(3) THEN as(3)
        ELSE IF ok(4) THEN as(4)
        ELSE IF ok(5) THEN as(5)
        ELSE IF ok(6) THEN as(6)
        ELSE Err(DecodeError)

get_base_account(a) == a.base

get_account_vesting_info(conn, ans) ==
    IF conn # Connected THEN Err(GrpcFailure(conn))
    ELSE CASE ans.kind = "no_answer" -> Err(FromElapsed)
           [] ans.kind = "reply" ->
                IF IsSome(Val(ans).account) THEN decode_from_any(Unwrap(Val(ans).account))
                ELSE Panic("auth/mod.rs:42 account.unwrap()")
           [] ans.kind = "status" ->
                IF ans.payload[1].code = "NotFound" THEN Err(NoToken)
                ELSE Err(RequestError(ans.payload[1]))

get_account_info(conn, ans) ==
    LET a == get_account_vesting_info(conn, ans)
    IN  IF IsOk(a) THEN Ok(get_base_account(Val(a))) ELSE a

(***************************************************************************)
(* get_latest_block and get_message_args (client/get.rs)                   *)
(***************************************************************************)
LatestBlockLatest(block) == [kind |-> "Latest", payload |-> << block >>]
LatestBlockSyncing(block) == [kind |-> "Syncing", payload |-> << block >>]
LatestBlockWaitingToStart == [kind |-> "WaitingToStart", payload |-> << >>]

get_latest_block(conn, sync, blk) ==
    IF conn # Connected THEN Err(GrpcFailure(conn))
    ELSE IF sync.kind # "reply" THEN Err(GrpcFailure(sync))
    ELSE CASE blk.kind = "no_answer" -> Err(FromElapsed)
           [] blk.kind = "status" -> Panic("get.rs:96 unwrap()")
           [] blk.kind = "reply" ->
                IF IsSome(Val(blk).block)
                THEN (IF Val(sync).syncing
                      THEN Ok(LatestBlockSyncing(Unwrap(Val(blk).block)))
                      ELSE Ok(LatestBlockLatest(Unwrap(Val(blk).block))))
                ELSE Ok(LatestBlockWaitingToStart)

\* the results a u64 addition or multiplication can have: the value when it
\* fits, else an abort (overflow checks on) or the wrapped value (checks off)
U64Arith(x, site) ==
    IF x <= U64Max THEN { Ok(x) } ELSE { Ok(x % U64Modulus), Panic(site) }

\* u64::try_from on an i64
U64TryFrom(x) == IF x >= 0 THEN Ok(x) ELSE Err(FromTryFromIntError)

DEFAULT_TRANSACTION_TIMEOUT_BLOCKS == 100

\* the match of get_message_args on the latest block: the set of its outcomes
MessageArgsFor(account_info, latest_block, fee, timeout_block) ==
    CASE latest_block.kind = "Latest" ->
            LET header == latest_block.payload[1].header
            IN  IF IsSome(header)
                THEN LET h == U64TryFrom(Unwrap(header).height)
                         t == IF IsSome(timeout_block) THEN Unwrap(timeout_block)
                              ELSE DEFAULT_TRANSACTION_TIMEOUT_BLOCKS
                     IN  IF IsErr(h) THEN { h }
                         ELSE { IF IsPanic(s) THEN s
                                ELSE Ok([sequence |-> account_info.sequence,
                                         account_number |-> account_info.account_number,
                                         chain_id |-> Unwrap(header).chain_id,
                                         fee |-> fee,
                                         tip |-> None,
                                         timeout_height |-> Val(s)])
                                : s \in U64Arith(Val(h) + t, "get.rs:336 add overflow") }
                ELSE { Err(BadResponse("Null block header?")) }
      [] latest_block.kind = "Syncing" -> { Err(NodeNotSynced) }
      [] latest_block.kind = "WaitingToStart" -> { Err(ChainNotRunning) }

\* get_message_args from the node's answers to its two queries
get_message_args(acct, latest, fee, timeout_block) ==
    IF ~IsOk(acct) THEN { acct }
    ELSE IF ~IsOk(latest) THEN { latest }
    ELSE MessageArgsFor(Val(acct), Val(latest), fee, timeout_block)

(***************************************************************************)
(* get_block_params and get_fee_info (client/get.rs, client/send.rs)       *)
(***************************************************************************)
\* str::parse::<u64>() on a text that is a decimal numeral (a 1-tuple holding
\* its value) or no numeral (the empty tuple)
ParseU64(text) == IF text # << >> /\ text[1] \in 0..U64Max THEN Some(text[1]) ELSE None

\* impl From<BlockParamsJson> for BlockParams
BlockParamsFromJson(input) ==
    LET max_gas == ParseU64(input.max_gas)
        max_bytes == IF IsSome(ParseU64(input.max_bytes)) THEN Unwrap(ParseU64(input.max_bytes)) ELSE 0
    IN  [max_bytes |-> max_bytes, max_gas |-> max_gas]

\* get_param("baseapp", "BlockParams") and the decoding of its answer; the
\* param value is the BlockParamsJson it parses to, or no JSON of that shape
get_block_params_fallback(conn, ans) ==
    IF conn # Connected THEN Err(GrpcFailure(conn))
    ELSE IF ans.kind # "reply" THEN Err(GrpcFailure(ans))
    ELSE IF IsSome(Val(ans).param)
    THEN (IF IsSome(Unwrap(Val(ans).param).value)
          THEN Ok(BlockParamsFromJson(Unwrap(Unwrap(Val(ans).param).value)))
          ELSE Err(BadResponse("Failed to parse BlockParams")))
    ELSE Err(BadResponse("No BlockParams? Deep Space probably needs to be upgraded"))

\* get_block_params with the calls it makes: calls lists, in order, the
\* consensus params query and the call of get_block_params_fallback
get_block_params_falling_back_on_any_status(conn, ans, legacyConn, legacyAns) ==
    IF conn # Connected THEN [calls |-> << >>, ret |-> Err(GrpcFailure(conn))]
    ELSE CASE ans.kind = "no_answer" ->
                [calls |-> << "ConsensusQueryClient::params" >>, ret |-> Err(FromElapsed)]
           [] ans.kind = "status" ->
                [calls |-> << "ConsensusQueryClient::params", "get_block_params_fallback" >>,
                 ret |-> get_block_params_fallback(legacyConn, legacyAns)]
           [] ans.kind = "reply" ->
                [calls |-> << "ConsensusQueryClient::params" >>,
                 ret |-> IF IsSome(Val(ans).params) /\ IsSome(Unwrap(Val(ans).params).block)
                         THEN LET v == Unwrap(Unwrap(Val(ans).params).block)
                              IN  IF IsErr(U64TryFrom(v.max_bytes)) THEN U64TryFrom(v.max_bytes)
                                  ELSE IF IsErr(U64TryFrom(v.max_gas)) THEN U64TryFrom(v.max_gas)
                                  ELSE Ok([max_bytes |-> v.max_bytes, max_gas |-> Some(v.max_gas)])
                         ELSE Err(BadResponse("No BlockParams? Deep Space/protos probably need an update"))]

get_block_params_calls(conn, ans, legacyConn, legacyAns) ==
    IF conn # Connected THEN [calls |-> << >>, ret |-> Err(GrpcFailure(conn))]
    ELSE CASE ans.kind = "no_answer" ->
                [calls |-> << "ConsensusQueryClient::params" >>, ret |-> Err(FromElapsed)]
           [] ans.kind = "status" ->
                IF ans.payload[1].code = "Unimplemented"
                THEN [calls |-> << "ConsensusQueryClient::params", "get_block_params_fallback" >>,
                      ret |-> get_block_params_fallback(legacyConn, legacyAns)]
                ELSE [calls |-> << "ConsensusQueryClient::params" >>,
                      ret |-> Err(RequestError(ans.payload[1]))]
           [] ans.kind = "reply" ->
                [calls |-> << "ConsensusQueryClient::params" >>,
                 ret |-> IF IsSome(Val(ans).params) /\ IsSome(Unwrap(Val(ans).params).block)
                         THEN LET v == Unwrap(Unwrap(Val(ans).params).block)
                              IN  IF IsErr(U64TryFrom(v.max_bytes)) THEN U64TryFrom(v.max_bytes)
                                  ELSE IF IsErr(U64TryFrom(v.max_gas)) THEN U64TryFrom(v.max_gas)
                                  ELSE Ok([max_bytes |-> v.max_bytes, max_gas |-> Some(v.max_gas)])
                         ELSE Err(BadResponse("No BlockParams? Deep Space/protos probably need an update"))]

get_block_params(conn, ans, legacyConn, legacyAns) ==
    get_block_params_calls(conn, ans, legacyConn, legacyAns).ret

\* get_fee_info after the simulation: sim is the result of simulate_tx,
\* params that of get_block_params (queried only when the simulation is Ok)
get_fee_info(sim, params, fee_token) ==
    IF ~IsOk(sim) THEN { sim }
    ELSE IF ~IsSome(Val(sim).gas_info) THEN { Panic("send.rs:202 gas_info.unwrap()") }
    ELSE LET gas_used == Unwrap(Val(sim).gas_info).gas_used
         IN  IF ~IsOk(params) THEN { params }
             ELSE IF IsSome(Val(params).max_gas) /\ gas_used > Unwrap(Val(params).max_gas)
             THEN { Err(GasRequiredExceedsBlockMaximum(Unwrap(Val(params).max_gas), gas_used)) }
             ELSE { IF IsPanic(g) THEN g
                    ELSE Ok([amount |-> fee_token, granter |-> None, payer |-> None,
                             gas_limit |-> Val(g)])
                    : g \in U64Arith(gas_used * 2, "send.rs:238 mul overflow") }

(***************************************************************************)
(* State.  Calls are the send_message calls one key issues through one     *)
(* Contact; they share nothing but the node.                               *)
(***************************************************************************)
VARIABLES
    \* send_message, per call
    pc,          \* the await point the call is suspended at
    wait,        \* the wait_timeout argument
    acct,        \* account_info of the get_message_args in progress
    sim,         \* the SimulateResponse
    fee,         \* the Fee built by get_fee_info
    args,        \* the MessageArgs built by get_message_args
    signed,      \* the transactions sign_std_msg produced: purpose and args
    broadcasts,  \* the BroadcastTxRequests issued: signed tx and mode
    bresp,       \* the TxResponse send_transaction returned
    elapsed,     \* Instant::now() - start in wait_for_tx
    lastAnswer,  \* the node's answer to the broadcast or to the poll in progress
    result,      \* what send_message returned
    steps,       \* the steps of send_message that succeeded, in order
    early,       \* the outcome of the step before the broadcast that did not succeed
    after,       \* the calls that had returned Ok when this call started
    \* the chain
    chainSeq,    \* the committed sequence of the key's account
    mempool,     \* the calls whose transaction the node accepted
    included     \* the calls whose transaction is in a block, with its result

sendVars == << pc, wait, acct, sim, fee, args, signed, broadcasts, bresp, elapsed,
               lastAnswer, result, steps, early, after, chainSeq, mempool, included >>

\* wait_for_next_block
VARIABLES
    bpc,          \* where wait_for_next_block is: idle, check, poll, sleep, done
    bElapsed,     \* Instant::now() - start
    last_height,  \* its local of that name
    bResult,      \* what it returned
    seen          \* the results of its get_chain_status polls, in order

blockVars == << bpc, bElapsed, last_height, bResult, seen >>

\* the query function in progress
VARIABLES
    gOp,      \* the query function in progress, or "none"
    gCall,    \* the gateway call it awaits: 1 is the connect, 2 the request
    gWaited,  \* the seconds it has awaited that call
    gResult   \* what the function returned

gatewayVars == << gOp, gCall, gWaited, gResult >>

\* a function applied to drawn arguments
VARIABLES
    fn,      \* the function applied, or "none"
    input,   \* its arguments
    output   \* its result, once applied

pureVars == << fn, input, output >>

\* an Address in the hands of a caller
VARIABLES
    address,  \* the Address the caller holds, once a constructor gave one
    called    \* the last operation called, its arguments and its result

addressVars == << address, called >>

vars == << sendVars, blockVars, gatewayVars, pureVars, addressVars >>
notSend == << blockVars, gatewayVars, pureVars, addressVars >>
notBlock == << sendVars, gatewayVars, pureVars, addressVars >>
notGateway == << sendVars, blockVars, pureVars, addressVars >>
notPure == << sendVars, blockVars, gatewayVars, addressVars >>
notAddress == << sendVars, blockVars, gatewayVars, pureVars >>

\* the two send_message calls of one key
Calls == { 1, 2 }

AccountNumber == 7
ChainId == "chain-0"
FeeCoins == << [denom |-> "ufootoken", amount |-> 1] >>

\* the Any of a base account with the given sequence
BaseAccountAny(sequence) ==
    [type_url |-> "/cosmos.auth.v1beta1.BaseAccount",
     decodes |-> { "ProtoBaseAccount" },
     base |-> [account_number |-> AccountNumber, sequence |-> sequence]]

BlockAt(height) ==
    [header |-> Some([chain_id |-> ChainId, height |-> height]),
     last_commit |-> Some([height |-> height])]

TxResponse(hash, codespace, code, gas_wanted, gas_used, raw_log) ==
    [txhash |-> hash, codespace |-> codespace, code |-> code,
     gas_wanted |-> gas_wanted, gas_used |-> gas_used, raw_log |-> raw_log]

\* the answers of the node to the queries of send_message
AccountAnswers ==
    { << conn, NoAnswer >> : conn \in { TransportFailure, NoAnswer } }
    \cup { << Connected, ans >> :
           ans \in { NoAnswer, Status("NotFound", ""), Status("Unavailable", ""),
                     Reply([account |-> Some(BaseAccountAny(chainSeq))]) } }

LatestBlockAnswers ==
    { << TransportFailure, NoAnswer, NoAnswer >>,
      << Connected, NoAnswer, NoAnswer >>,
      << Connected, Reply([syncing |-> FALSE]), NoAnswer >>,
      << Connected, Reply([syncing |-> FALSE]), Status("Unknown", "nil Block") >>,
      << Connected, Reply([syncing |-> FALSE]), Reply([block |-> None]) >>,
      << Connected, Reply([syncing |-> TRUE]), Reply([block |-> Some(BlockAt(1))]) >>,
      << Connected, Reply([syncing |-> FALSE]), Reply([block |-> Some(BlockAt(1))]) >> }

SimulateAnswers ==
    { NoAnswer, Status("InvalidArgument", ""),
      Reply([gas_info |-> Some([gas_wanted |-> I64Max, gas_used |-> 1])]) }

ConsensusParams(max_gas) ==
    Reply([params |-> Some([block |-> Some([max_bytes |-> 1, max_gas |-> max_gas])])])
LegacyParams(max_gas) ==
    Reply([param |-> Some([value |-> Some([max_bytes |-> << 1 >>, max_gas |-> << max_gas >>])])])

BlockParamsAnswers ==
    { << TransportFailure, NoAnswer, NoAnswer, NoAnswer >>,
      << Connected, NoAnswer, NoAnswer, NoAnswer >>,
      << Connected, Status("Unavailable", ""), NoAnswer, NoAnswer >>,
      << Connected, ConsensusParams(0), NoAnswer, NoAnswer >>,
      << Connected, ConsensusParams(I64Max), NoAnswer, NoAnswer >>,
      << Connected, Status("Unimplemented", ""), Connected, LegacyParams(0 - 1) >> }

\* the raw log of an insufficient fee as the chain writes it: the coins got
\* and the coins required
DigitChars == << "0", "1", "2", "3", "4", "5", "6", "7", "8", "9" >>
RECURSIVE DecimalText(_)
DecimalText(n) ==
    IF n < 10 THEN << DigitChars[n + 1] >>
    ELSE DecimalText(n \div 10) \o << DigitChars[(n % 10) + 1] >>

CoinText(coin) == DecimalText(coin.amount) \o coin.denom

RECURSIVE CoinsText(_)
CoinsText(coins) ==
    IF coins = << >> THEN << >>
    ELSE IF Len(coins) = 1 THEN CoinText(coins[1])
    ELSE CoinText(coins[1]) \o << "," >> \o CoinsText(Tail(coins))

InsufficientFeeRawLog(got, required) ==
    << "i", "n", "s", "u", "f", "f", "i", "c", "i", "e", "n", "t", " ", "f", "e", "e", "s", ";", " ", "g", "o", "t", ":", " " >>
    \o got \o << " ", "r", "e", "q", "u", "i", "r", "e", "d", ":", " " >>
    \o required \o << ":", " ", "i", "n", "s", "u", "f", "f", "i", "c", "i", "e", "n", "t", " ", "f", "e", "e" >>

\* raw logs: one without a ':', and that of an insufficient fee, whose
\* required part holds a coin and an item that is no coin
PlainLog == << "e" >>
InsufficientFeeLog ==
    InsufficientFeeRawLog(<< "1", "f", "o", "o" >>, << "2", "u", "f", "o", "o", ",", "u", "f", "o", "o" >>)

\* the TxResponses the node gives to the broadcast of transaction `hash`
BroadcastResponses(hash) ==
    { TxResponse(hash, "", 0, 2, 0, PlainLog),
      TxResponse(hash, "sdk", 32, 2, 0, PlainLog),
      TxResponse(hash, "sdk", 13, 2, 0, InsufficientFeeLog),
      TxResponse(hash, "bank", 5, 2, 0, PlainLog) }

BroadcastAnswers(hash) ==
    { NoAnswer, Status("Unavailable", "") }
    \cup { Reply([tx_response |-> Some(r)]) : r \in BroadcastResponses(hash) }

\* the TxResponse of a transaction in a block
DeliveredResponse(hash) ==
    IF included[hash] = "delivered" THEN TxResponse(hash, "", 0, 2, 1, PlainLog)
    ELSE TxResponse(hash, "sdk", 5, 2, 1, PlainLog)

\* the gRPC codes the node answers a get_tx_by_hash with: the three that
\* wait_for_tx takes for 'not yet' and three of the others
PolledCodes ==
    { "NotFound", "Unknown", "InvalidArgument", "Unimplemented", "Unavailable",
      "DeadlineExceeded" }

GetTxAnswers(hash) ==
    { << conn, NoAnswer >> : conn \in { TransportFailure, NoAnswer } }
    \cup { << Connected, ans >> :
           ans \in { NoAnswer, Reply([tx_response |-> None]) }
                   \cup { Status(code, "") : code \in PolledCodes }
                   \cup (IF included[hash] # "no"
                         THEN { Reply([tx_response |-> Some(DeliveredResponse(hash))]) }
                         ELSE { }) }

SendInit ==
    /\ pc = [c \in Calls |-> "idle"]
    /\ wait = [c \in Calls |-> None]
    /\ acct = [c \in Calls |-> None]
    /\ sim = [c \in Calls |-> None]
    /\ fee = [c \in Calls |-> None]
    /\ args = [c \in Calls |-> None]
    /\ signed = [c \in Calls |-> << >>]
    /\ broadcasts = [c \in Calls |-> << >>]
    /\ bresp = [c \in Calls |-> None]
    /\ elapsed = [c \in Calls |-> 0]
    /\ lastAnswer = [c \in Calls |-> None]
    /\ result = [c \in Calls |-> None]
    /\ steps = [c \in Calls |-> << >>]
    /\ early = [c \in Calls |-> None]
    /\ after = [c \in Calls |-> { }]
    /\ chainSeq = 0
    /\ mempool = { }
    /\ included = [c \in Calls |-> "no"]

(***************************************************************************)
(* send_message and the functions it awaits (client/send.rs)               *)
(***************************************************************************)
Last(q) == q[Len(q)]

\* sign_std_msg with the account number signed in the place of the sequence
sign_std_msg_swapped(messageArgs, memo) ==
    Ok([sequence |-> messageArgs.account_number, account_number |-> messageArgs.sequence,
        chain_id |-> messageArgs.chain_id, fee |-> messageArgs.fee,
        timeout_height |-> messageArgs.timeout_height, memo |-> memo])

\* sign_std_msg: the signed transaction, as the signing context it commits to
sign_std_msg(messageArgs, memo) ==
    Ok([sequence |-> messageArgs.sequence, account_number |-> messageArgs.account_number,
        chain_id |-> messageArgs.chain_id, fee |-> messageArgs.fee,
        timeout_height |-> messageArgs.timeout_height, memo |-> memo])

MEMO == "Sent with Deep Space"

\* the call returns r to its caller (or unwinds, when r is a panic)
Returned(c, r) ==
    /\ pc' = [pc EXCEPT ![c] = "done"]
    /\ result' = [result EXCEPT ![c] = Some(r)]

\* a step before the broadcast ends the call with r
EarlyReturn(c, r) ==
    /\ Returned(c, r)
    /\ early' = [early EXCEPT ![c] = Some(r)]

send_message(c) ==
    /\ pc[c] = "idle"
    /\ \A d \in Calls : d < c => pc[d] # "idle"
    /\ \E w \in { None, Some(WaitSecs) } : wait' = [wait EXCEPT ![c] = w]
    /\ after' = [after EXCEPT ![c] =
                    { d \in Calls : pc[d] = "done" /\ IsOk(Unwrap(result[d])) }]
    /\ pc' = [pc EXCEPT ![c] = "sim_connect"]
    /\ UNCHANGED << acct, sim, fee, args, signed, broadcasts, bresp, elapsed, lastAnswer,
                    result, steps, early, chainSeq, mempool, included >>
    /\ UNCHANGED notSend

\* simulate_tx: TxServiceClient::connect
simulate_tx_connect(c) ==
    /\ pc[c] = "sim_connect"
    /\ \E conn \in ConnectAnswers :
          IF conn = Connected
          THEN /\ pc' = [pc EXCEPT ![c] = "sim_account"]
               /\ UNCHANGED << result, early >>
          ELSE EarlyReturn(c, Err(GrpcFailure(conn)))
    /\ UNCHANGED << wait, acct, sim, fee, args, signed, broadcasts, bresp, elapsed,
                    lastAnswer, steps, after, chainSeq, mempool, included >>
    /\ UNCHANGED notSend

\* get_message_args: get_account_info
AccountStep(c, from, to) ==
    /\ pc[c] = from
    /\ \E a \in AccountAnswers :
          LET r == get_account_info(a[1], a[2])
          IN  IF IsOk(r)
              THEN /\ acct' = [acct EXCEPT ![c] = Some(Val(r))]
                   /\ pc' = [pc EXCEPT ![c] = to]
                   /\ UNCHANGED << result, early >>
              ELSE /\ EarlyReturn(c, r)
                   /\ UNCHANGED acct
    /\ UNCHANGED << wait, sim, fee, args, signed, broadcasts, bresp, elapsed, lastAnswer,
                    steps, after, chainSeq, mempool, included >>
    /\ UNCHANGED notSend

\* get_message_args: get_latest_block and the MessageArgs, then the signing
\* that follows it without an await
LatestBlockStep(c, from, to, feeObj, timeout_block, memo, step) ==
    /\ pc[c] = from
    /\ \E b \in LatestBlockAnswers :
       \E r \in get_message_args(Ok(Unwrap(acct[c])), get_latest_block(b[1], b[2], b[3]),
                                 feeObj, timeout_block) :
          IF IsOk(r)
          THEN LET tx == sign_std_msg(Val(r), memo)
               IN  /\ IsOk(tx)
                   /\ args' = [args EXCEPT ![c] = Some(Val(r))]
                   /\ signed' = [signed EXCEPT ![c] = Append(@, Val(tx))]
                   /\ steps' = [steps EXCEPT ![c] = @ \o step]
                   /\ pc' = [pc EXCEPT ![c] = to]
                   /\ UNCHANGED << result, early >>
          ELSE /\ EarlyReturn(c, r)
               /\ UNCHANGED << args, signed, steps >>
    /\ UNCHANGED << wait, acct, sim, fee, broadcasts, bresp, elapsed, lastAnswer, after,
                    chainSeq, mempool, included >>
    /\ UNCHANGED notSend

\* the Fee simulate_tx signs with
SimulationFee(fee_amount) ==
    [amount |-> fee_amount, granter |-> None, payer |-> None, gas_limit |-> I64Max]

simulate_tx_account(c) == AccountStep(c, "sim_account", "sim_block")

simulate_tx_block(c) ==
    LatestBlockStep(c, "sim_block", "sim_request", SimulationFee(FeeCoins), None, MEMO, << >>)

\* simulate_tx: the simulate request
simulate_tx_request(c) ==
    /\ pc[c] = "sim_request"
    /\ \E ans \in SimulateAnswers :
          IF ans.kind = "reply"
          THEN /\ sim' = [sim EXCEPT ![c] = Some(Val(ans))]
               /\ steps' = [steps EXCEPT ![c] = Append(@, "simulate_tx")]
               /\ pc' = [pc EXCEPT ![c] = "block_params"]
               /\ UNCHANGED << result, early >>
          ELSE /\ EarlyReturn(c, Err(GrpcFailure(ans)))
               /\ UNCHANGED << sim, steps >>
    /\ UNCHANGED << wait, acct, fee, args, signed, broadcasts, bresp, elapsed, lastAnswer,
                    after, chainSeq, mempool, included >>
    /\ UNCHANGED notSend

\* get_fee_info: get_block_params, the gas check and the Fee
get_fee_info_params(c) ==
    /\ pc[c] = "block_params"
    /\ \E p \in BlockParamsAnswers :
       \E r \in get_fee_info(Ok(Unwrap(sim[c])), get_block_params(p[1], p[2], p[3], p[4]),
                             FeeCoins) :
          IF IsOk(r)
          THEN /\ fee' = [fee EXCEPT ![c] = Some(Val(r))]
               /\ steps' = [steps EXCEPT ![c] = Append(@, "get_block_params")]
               /\ pc' = [pc EXCEPT ![c] = "args_account"]
               /\ UNCHANGED << result, early >>
          ELSE /\ EarlyReturn(c, r)
               /\ UNCHANGED << fee, steps >>
    /\ UNCHANGED << wait, acct, sim, args, signed, broadcasts, bresp, elapsed, lastAnswer,
                    after, chainSeq, mempool, included >>
    /\ UNCHANGED notSend

send_message_account(c) == AccountStep(c, "args_account", "args_block")

\* the block_timeout arguments send_message is called with
BlockTimeouts == { None, Some(1) }

\* send_message: get_message_args(our_address, fee, block_timeout); the
\* argument is drawn where it is first read
send_message_block(c) ==
    /\ IsSome(fee[c])
    /\ \E block_timeout \in BlockTimeouts :
          LatestBlockStep(c, "args_block", "broadcast", Unwrap(fee[c]), block_timeout, MEMO,
                          << "get_message_args" >>)

\* a send_transaction that keeps the sequences in flight and refuses a
\* transaction whose sequence another call of the key has broadcast
send_transaction_serialized(c, mode) ==
    /\ pc[c] = "broadcast"
    /\ \E conn \in ConnectAnswers :
          IF conn # Connected
          THEN /\ Returned(c, Err(GrpcFailure(conn)))
               /\ lastAnswer' = [lastAnswer EXCEPT ![c] = Some(<< conn, NoAnswer >>)]
               /\ UNCHANGED << broadcasts, bresp, mempool, steps >>
          ELSE IF \E d \in Calls \ { c } :
                     /\ broadcasts[d] # << >>
                     /\ Last(broadcasts[d]).tx.sequence = Last(signed[c]).sequence
          THEN /\ Returned(c, Err(BadResponse("sequence in flight")))
               /\ UNCHANGED << lastAnswer, broadcasts, bresp, mempool, steps >>
          ELSE \E ans \in BroadcastAnswers(c), accepted \in BOOLEAN :
                  /\ ans.kind = "reply" => (accepted <=> Unwrap(Val(ans).tx_response).code = 0)
                  /\ broadcasts' = [broadcasts EXCEPT ![c] =
                                       Append(@, [tx |-> Last(signed[c]), mode |-> mode])]
                  /\ steps' = [steps EXCEPT ![c] = Append(@, "broadcast_tx")]
                  /\ mempool' = IF accepted THEN mempool \cup { c } ELSE mempool
                  /\ lastAnswer' = [lastAnswer EXCEPT ![c] = Some(<< conn, ans >>)]
                  /\ IF ans.kind # "reply"
                     THEN /\ Returned(c, Err(GrpcFailure(ans)))
                          /\ UNCHANGED bresp
                     ELSE LET response == Unwrap(Val(ans).tx_response)
                          IN  IF IsErr(check_for_sdk_error(response))
                              THEN /\ Returned(c, check_for_sdk_error(response))
                                   /\ UNCHANGED bresp
                              ELSE /\ bresp' = [bresp EXCEPT ![c] = Some(response)]
                                   /\ IF IsSome(wait[c])
                                      THEN /\ pc' = [pc EXCEPT ![c] = "wait_check"]
                                           /\ UNCHANGED result
                                      ELSE Returned(c, Ok(response))
    /\ UNCHANGED << wait, acct, sim, fee, args, signed, elapsed, early, after,
                    chainSeq, included >>
    /\ UNCHANGED notSend

\* send_transaction(msg, mode), called by send_message_with_args
send_transaction(c, mode) ==
    /\ pc[c] = "broadcast"
    /\ \E conn \in ConnectAnswers :
          IF conn # Connected
          THEN /\ Returned(c, Err(GrpcFailure(conn)))
               /\ lastAnswer' = [lastAnswer EXCEPT ![c] = Some(<< conn, NoAnswer >>)]
               /\ UNCHANGED << broadcasts, bresp, mempool, steps >>
          ELSE \E ans \in BroadcastAnswers(c), accepted \in BOOLEAN :
                  /\ ans.kind = "reply" => (accepted <=> Unwrap(Val(ans).tx_response).code = 0)
                  /\ broadcasts' = [broadcasts EXCEPT ![c] =
                                       Append(@, [tx |-> Last(signed[c]), mode |-> mode])]
                  /\ steps' = [steps EXCEPT ![c] = Append(@, "broadcast_tx")]
                  /\ mempool' = IF accepted THEN mempool \cup { c } ELSE mempool
                  /\ lastAnswer' = [lastAnswer EXCEPT ![c] = Some(<< conn, ans >>)]
                  /\ IF ans.kind # "reply"
                     THEN /\ Returned(c, Err(GrpcFailure(ans)))
                          /\ UNCHANGED bresp
                     ELSE IF ~IsSome(Val(ans).tx_response)
                     THEN /\ Returned(c, Panic("send.rs:97 tx_response.unwrap()"))
                          /\ UNCHANGED bresp
                     ELSE LET response == Unwrap(Val(ans).tx_response)
                          IN  IF IsErr(check_for_sdk_error(response))
                              THEN /\ Returned(c, check_for_sdk_error(response))
                                   /\ UNCHANGED bresp
                              ELSE /\ bresp' = [bresp EXCEPT ![c] = Some(response)]
                                   /\ IF IsSome(wait[c])
                                      THEN /\ pc' = [pc EXCEPT ![c] = "wait_check"]
                                           /\ UNCHANGED result
                                      ELSE Returned(c, Ok(response))
    /\ UNCHANGED << wait, acct, sim, fee, args, signed, elapsed, early, after,
                    chainSeq, included >>
    /\ UNCHANGED notSend

send_message_with_args(c) == send_transaction(c, "Sync")

(***************************************************************************)
(* wait_for_tx (client/send.rs) and get_tx_by_hash (client/get.rs)         *)
(***************************************************************************)
get_tx_by_hash(conn, ans) ==
    IF conn # Connected THEN Err(GrpcFailure(conn))
    ELSE IF ans.kind # "reply" THEN Err(GrpcFailure(ans))
    ELSE Ok(Val(ans))

\* the time a connect followed by a request can take, each under
\* timeout(Contact.timeout, ..)
CallDurations(conn, ans) ==
    CASE conn = NoAnswer -> { ContactTimeout }
      [] conn = TransportFailure -> 0..ContactTimeout
      [] conn = Connected /\ ans = NoAnswer -> ContactTimeout..(2 * ContactTimeout)
      [] OTHER -> 0..(2 * ContactTimeout)

\* wait_for_tx with InvalidArgument left out of the codes it polls again on
NotYetCodesShort == { "NotFound", "Unknown" }

\* the gRPC codes wait_for_tx takes for 'not in the chain yet'
NotYetCodes == { "NotFound", "Unknown", "InvalidArgument" }

\* the match of wait_for_tx with every failure of get_tx_by_hash turned into
\* TransactionFailed, unless its code is one of the 'not yet' ones
WaitForTxMatchConverting(status, response, sinceStart) ==
    IF IsOk(status)
    THEN (IF IsSome(Val(status).tx_response)
          THEN Some(Ok(Unwrap(Val(status).tx_response)))
          ELSE None)
    ELSE IF Val(status).kind = "RequestError" /\ Val(status).payload[1].code \in NotYetCodes
    THEN None
    ELSE Some(Err(TransactionFailed(response, sinceStart, None)))

\* the match of wait_for_tx with check_for_sdk_error applied to the
\* tx_response it found
WaitForTxMatchChecking(status, response, sinceStart) ==
    IF IsOk(status)
    THEN (IF IsSome(Val(status).tx_response)
          THEN (LET res == Unwrap(Val(status).tx_response)
                IN  IF IsErr(check_for_sdk_error(res))
                    THEN Some(check_for_sdk_error(res))
                    ELSE Some(Ok(res)))
          ELSE None)
    ELSE IF Val(status).kind = "RequestError"
    THEN (IF Val(status).payload[1].code \in NotYetCodes
          THEN None
          ELSE Some(Err(TransactionFailed(response, sinceStart, None))))
    ELSE Some(status)

\* the match of wait_for_tx on one poll: the value to return, or None to sleep
\* and poll again
WaitForTxMatch(status, response, sinceStart) ==
    IF IsOk(status)
    THEN (IF IsSome(Val(status).tx_response)
          THEN Some(Ok(Unwrap(Val(status).tx_response)))
          ELSE None)
    ELSE IF Val(status).kind = "RequestError"
    THEN (IF Val(status).payload[1].code \in NotYetCodes
          THEN None
          ELSE Some(Err(TransactionFailed(response, sinceStart, None))))
    ELSE Some(status)

\* wait_for_tx: the loop condition
wait_for_tx_check(c) ==
    /\ pc[c] = "wait_check"
    /\ IF elapsed[c] < Unwrap(wait[c])
       THEN /\ pc' = [pc EXCEPT ![c] = "wait_poll"]
            /\ UNCHANGED result
       ELSE Returned(c, Err(TransactionFailed(Unwrap(bresp[c]), Unwrap(wait[c]), None)))
    /\ UNCHANGED << wait, acct, sim, fee, args, signed, broadcasts, bresp, elapsed,
                    lastAnswer, steps, early, after, chainSeq, mempool, included >>
    /\ UNCHANGED notSend

\* wait_for_tx: one get_tx_by_hash and the match on its result
wait_for_tx_poll(c) ==
    /\ pc[c] = "wait_poll"
    /\ \E a \in GetTxAnswers(c) :
       \E d \in CallDurations(a[1], a[2]) :
          LET m == WaitForTxMatch(get_tx_by_hash(a[1], a[2]), Unwrap(bresp[c]), elapsed[c] + d)
          IN  /\ elapsed' = [elapsed EXCEPT ![c] = @ + d]
              /\ lastAnswer' = [lastAnswer EXCEPT ![c] = Some(a)]
              /\ IF IsSome(m)
                 THEN Returned(c, Unwrap(m))
                 ELSE /\ pc' = [pc EXCEPT ![c] = "wait_sleep"]
                      /\ UNCHANGED result
    /\ UNCHANGED << wait, acct, sim, fee, args, signed, broadcasts, bresp, steps, early,
                    after, chainSeq, mempool, included >>
    /\ UNCHANGED notSend

\* wait_for_tx: sleep(Duration::from_secs(1))
wait_for_tx_sleep(c) ==
    /\ pc[c] = "wait_sleep"
    /\ elapsed' = [elapsed EXCEPT ![c] = @ + 1]
    /\ lastAnswer' = [lastAnswer EXCEPT ![c] = None]
    /\ pc' = [pc EXCEPT ![c] = "wait_check"]
    /\ UNCHANGED << wait, acct, sim, fee, args, signed, broadcasts, bresp,
                    result, steps, early, after, chainSeq, mempool, included >>
    /\ UNCHANGED notSend

(***************************************************************************)
(* The chain: a transaction the node accepted enters a block; it advances  *)
(* the account sequence when it carries the committed sequence and its     *)
(* ante checks pass, and is recorded as failed otherwise.                  *)
(***************************************************************************)
ChainInclude(c) ==
    /\ c \in mempool
    /\ included[c] = "no"
    /\ \E passes \in BOOLEAN :
          IF passes /\ Last(broadcasts[c]).tx.sequence = chainSeq
          THEN /\ included' = [included EXCEPT ![c] = "delivered"]
               /\ chainSeq' = chainSeq + 1
          ELSE /\ included' = [included EXCEPT ![c] = "failed"]
               /\ UNCHANGED chainSeq
    /\ UNCHANGED << pc, wait, acct, sim, fee, args, signed, broadcasts, bresp, elapsed,
                    lastAnswer, result, steps, early, after, mempool >>
    /\ UNCHANGED notSend

SendNext ==
    \E c \in Calls :
       \/ send_message(c)
       \/ simulate_tx_connect(c)
       \/ simulate_tx_account(c)
       \/ simulate_tx_block(c)
       \/ simulate_tx_request(c)
       \/ get_fee_info_params(c)
       \/ send_message_account(c)
       \/ send_message_block(c)
       \/ send_message_with_args(c)
       \/ wait_for_tx_check(c)
       \/ wait_for_tx_poll(c)
       \/ wait_for_tx_sleep(c)
       \/ ChainInclude(c)

(***************************************************************************)
(* get_chain_status and wait_for_next_block (client/get.rs)                *)
(***************************************************************************)

Moving(block_height) == [kind |-> "Moving", payload |-> << block_height >>]
Syncing == [kind |-> "Syncing", payload |-> << >>]
WaitingToStart == [kind |-> "WaitingToStart", payload |-> << >>]

get_chain_status(conn, sync, blk) ==
    IF conn # Connected THEN Err(GrpcFailure(conn))
    ELSE IF sync.kind # "reply" THEN Err(GrpcFailure(sync))
    ELSE IF Val(sync).syncing THEN Ok(Syncing)
    ELSE CASE blk.kind = "no_answer" -> Err(FromElapsed)
           [] blk.kind = "reply" ->
                IF IsSome(Val(blk).block)
                THEN (IF IsSome(Unwrap(Val(blk).block).last_commit)
                      THEN LET h == U64TryFrom(Unwrap(Unwrap(Val(blk).block).last_commit).height)
                           IN  IF IsOk(h) THEN Ok(Moving(Val(h))) ELSE h
                      ELSE Err(BadResponse("No commit in block?")))
                ELSE Ok(WaitingToStart)
           [] blk.kind = "status" ->
                IF blk.payload[1].message = "nil Block" THEN Ok(WaitingToStart)
                ELSE Err(RequestError(blk.payload[1]))

ChainStatusAnswers ==
    { << TransportFailure, NoAnswer, NoAnswer >>,
      << Connected, NoAnswer, NoAnswer >>,
      << Connected, Status("Unavailable", ""), NoAnswer >>,
      << Connected, Reply([syncing |-> TRUE]), NoAnswer >> }
    \cup { << Connected, Reply([syncing |-> FALSE]), blk >> :
           blk \in { NoAnswer, Status("Unknown", "nil Block"), Status("Unavailable", ""),
                     Reply([block |-> None]),
                     Reply([block |-> Some([header |-> None, last_commit |-> None])]) }
                   \cup { Reply([block |-> Some(BlockAt(h))]) : h \in (0 - 1)..MaxHeight } }

\* the time the three gateway calls of get_chain_status can take
ChainStatusDurations(a) ==
    IF a[1] # Connected THEN CallDurations(a[1], a[2])
    ELSE { d + e : d \in CallDurations(a[1], a[2]),
                   e \in (IF a[2].kind = "reply" /\ ~Val(a[2]).syncing
                          THEN (IF a[3] = NoAnswer THEN { ContactTimeout } ELSE 0..ContactTimeout)
                          ELSE { 0 }) }

BlockWaitInit ==
    /\ bpc = "idle"
    /\ bElapsed = 0
    /\ last_height = None
    /\ bResult = None
    /\ seen = << >>

wait_for_next_block ==
    /\ bpc = "idle"
    /\ bpc' = "check"
    /\ UNCHANGED << bElapsed, last_height, bResult, seen >>
    /\ UNCHANGED notBlock

\* the loop condition
wait_for_next_block_check ==
    /\ bpc = "check"
    /\ IF bElapsed < BlockWaitSecs
       THEN /\ bpc' = "poll"
            /\ UNCHANGED bResult
       ELSE /\ bpc' = "done"
            /\ bResult' = Some(Err(NoBlockProduced(BlockWaitSecs)))
    /\ UNCHANGED << bElapsed, last_height, seen >>
    /\ UNCHANGED notBlock

\* the match with the height compared by >= in the place of >
BlockWaitMatchNotStrict(res, last) ==
    IF IsOk(res)
    THEN CASE Val(res).kind = "Moving" ->
                 IF ~IsSome(last)
                 THEN [last_height |-> Some(Val(res).payload[1]), ret |-> None]
                 ELSE IF Val(res).payload[1] >= Unwrap(last)
                 THEN [last_height |-> last, ret |-> Some(Ok("unit"))]
                 ELSE [last_height |-> last, ret |-> None]
           [] Val(res).kind = "Syncing" ->
                 [last_height |-> last, ret |-> Some(Err(NodeNotSynced))]
           [] Val(res).kind = "WaitingToStart" ->
                 [last_height |-> last, ret |-> Some(Err(ChainNotRunning))]
    ELSE [last_height |-> last, ret |-> None]

\* the match with the Syncing and WaitingToStart arms taken only while no
\* height is recorded
BlockWaitMatchBaselineOnly(res, last) ==
    IF IsOk(res)
    THEN CASE Val(res).kind = "Moving" ->
                 IF ~IsSome(last)
                 THEN [last_height |-> Some(Val(res).payload[1]), ret |-> None]
                 ELSE IF Val(res).payload[1] > Unwrap(last)
                 THEN [last_height |-> last, ret |-> Some(Ok("unit"))]
                 ELSE [last_height |-> last, ret |-> None]
           [] Val(res).kind = "Syncing" ->
                 [last_height |-> last,
                  ret |-> IF IsSome(last) THEN None ELSE Some(Err(NodeNotSynced))]
           [] Val(res).kind = "WaitingToStart" ->
                 [last_height |-> last,
                  ret |-> IF IsSome(last) THEN None ELSE Some(Err(ChainNotRunning))]
    ELSE [last_height |-> last, ret |-> None]

\* the match with a failed poll returned to the caller
BlockWaitMatchSurfacing(res, last) ==
    IF IsOk(res)
    THEN CASE Val(res).kind = "Moving" ->
                 IF ~IsSome(last)
                 THEN [last_height |-> Some(Val(res).payload[1]), ret |-> None]
                 ELSE IF Val(res).payload[1] > Unwrap(last)
                 THEN [last_height |-> last, ret |-> Some(Ok("unit"))]
                 ELSE [last_height |-> last, ret |-> None]
           [] Val(res).kind = "Syncing" ->
                 [last_height |-> last, ret |-> Some(Err(NodeNotSynced))]
           [] Val(res).kind = "WaitingToStart" ->
                 [last_height |-> last, ret |-> Some(Err(ChainNotRunning))]
    ELSE [last_height |-> last, ret |-> Some(res)]

\* the match of wait_for_next_block on (res, last_height): the new
\* last_height and the value to return, or None to sleep and poll again
BlockWaitMatch(res, last) ==
    IF IsOk(res)
    THEN CASE Val(res).kind = "Moving" ->
                 IF ~IsSome(last)
                 THEN [last_height |-> Some(Val(res).payload[1]), ret |-> None]
                 ELSE IF Val(res).payload[1] > Unwrap(last)
                 THEN [last_height |-> last, ret |-> Some(Ok("unit"))]
                 ELSE [last_height |-> last, ret |-> None]
           [] Val(res).kind = "Syncing" ->
                 [last_height |-> last, ret |-> Some(Err(NodeNotSynced))]
           [] Val(res).kind = "WaitingToStart" ->
                 [last_height |-> last, ret |-> Some(Err(ChainNotRunning))]
    ELSE [last_height |-> last, ret |-> None]

\* one get_chain_status and the match on its result
wait_for_next_block_poll ==
    /\ bpc = "poll"
    /\ \E a \in ChainStatusAnswers :
       \E d \in ChainStatusDurations(a) :
          LET res == get_chain_status(a[1], a[2], a[3])
              m == BlockWaitMatch(res, last_height)
          IN  /\ bElapsed' = bElapsed + d
              /\ seen' = Append(seen, res)
              /\ last_height' = m.last_height
              /\ IF IsSome(m.ret)
                 THEN /\ bpc' = "done"
                      /\ bResult' = m.ret
                 ELSE /\ bpc' = "sleep"
                      /\ UNCHANGED bResult
    /\ UNCHANGED notBlock

\* sleep(Duration::from_secs(1))
wait_for_next_block_sleep ==
    /\ bpc = "sleep"
    /\ bElapsed' = bElapsed + 1
    /\ bpc' = "check"
    /\ UNCHANGED << last_height, bResult, seen >>
    /\ UNCHANGED notBlock

BlockWaitNext ==
    \/ wait_for_next_block
    \/ wait_for_next_block_check
    \/ wait_for_next_block_poll
    \/ wait_for_next_block_sleep

(***************************************************************************)
(* The gateway calls of the query functions of every client module: for    *)
(* each function, whether its connect and its request are awaited under    *)
(* timeout(self.get_timeout(), ..).                                        *)
(***************************************************************************)

Timed == << TRUE, TRUE >>
Untimed == << FALSE, FALSE >>

\* client/get.rs
GetCalls ==
    [ get_chain_status |-> Timed, get_latest_block |-> Timed, get_block |-> Timed,
      get_block_range |-> Timed, get_block_set |-> Timed, get_block_params |-> Timed,
      get_param |-> Timed, get_tx_by_hash |-> Timed ]
\* client/auth/mod.rs
AuthCalls == [ get_account_vesting_info |-> Timed, get_all_accounts |-> Timed ]
\* client/bank/mod.rs
BankCalls ==
    [ query_total_supply |-> Timed, query_supply_of |-> Timed,
      get_all_denoms_metadata |-> Timed, get_denom_metadata |-> Timed,
      get_balances |-> Timed, get_balance |-> Timed ]
\* client/send.rs
SendCalls == [ send_transaction |-> Timed, simulate_tx |-> Timed ]
\* client/gov/mod.rs
GovCalls == [ get_governance_proposals |-> Timed ]
\* client/mint/mod.rs
MintCalls ==
    [ get_mint_denom |-> Timed, get_mint_params |-> Timed, get_inflation |-> Timed,
      get_annual_provisions |-> Timed ]
\* client/ibc_transfer/mod.rs
IbcTransferCalls ==
    [ query_ibc_denom_trace |-> Timed, query_ibc_denom_traces |-> Timed,
      query_ibc_denom_hash |-> Timed ]
\* client/staking/mod.rs: StakingQueryClient::connect(..).await? and
\* grpc.validators(..).await?, with no timeout
StakingCalls ==
    [ get_validators_list |-> Untimed, get_validator_delegations |-> Untimed,
      get_delegation |-> Untimed ]
\* client/distribution/mod.rs: DistQueryClient::connect(..).await? and
\* grpc.community_pool(..).await?, with no timeout
DistributionCalls ==
    [ query_community_pool |-> Untimed, query_validator_slashes |-> Untimed,
      query_delegator_validators |-> Untimed, query_delegation_rewards |-> Untimed,
      query_all_delegation_rewards |-> Untimed ]

\* every function of Contact that itself calls the gateway
GatewayCalls ==
    GetCalls @@ AuthCalls @@ BankCalls @@ SendCalls @@ GovCalls @@ MintCalls
    @@ IbcTransferCalls @@ StakingCalls @@ DistributionCalls

GatewayOps == DOMAIN GatewayCalls

\* how long the model follows a call that nothing bounds
HangCap == ContactTimeout + 2

GatewayInit ==
    /\ gOp = "none"
    /\ gCall = 0
    /\ gWaited = 0
    /\ gResult = None

\* a query function is called and awaits its connect
GatewayCall ==
    /\ gOp = "none"
    /\ \E op \in GatewayOps : gOp' = op
    /\ gCall' = 1
    /\ gWaited' = 0
    /\ UNCHANGED gResult
    /\ UNCHANGED notGateway

\* the node answers the awaited call
GatewayAnswer ==
    /\ gOp # "none"
    /\ gResult = None
    /\ \E ans \in { TransportFailure, Status("Unavailable", ""), Reply("response") } :
          /\ ans = TransportFailure => gCall = 1
          /\ ans.kind = "status" => gCall = 2
          /\ IF ans.kind = "reply" /\ gCall = 1
             THEN /\ gCall' = 2
                  /\ gWaited' = 0
                  /\ UNCHANGED gResult
             ELSE /\ gResult' = Some(IF ans.kind = "reply" THEN Ok(Val(ans))
                                     ELSE Err(GrpcFailure(ans)))
                  /\ UNCHANGED << gCall, gWaited >>
    /\ UNCHANGED gOp
    /\ UNCHANGED notGateway

\* a second passes without an answer
GatewayTick ==
    /\ gOp # "none"
    /\ gResult = None
    /\ gWaited < HangCap
    /\ GatewayCalls[gOp][gCall] => gWaited < ContactTimeout
    /\ gWaited' = gWaited + 1
    /\ UNCHANGED << gOp, gCall, gResult >>
    /\ UNCHANGED notGateway

\* timeout(self.get_timeout(), ..) expires
GatewayElapsed ==
    /\ gOp # "none"
    /\ gResult = None
    /\ GatewayCalls[gOp][gCall]
    /\ gWaited = ContactTimeout
    /\ gResult' = Some(Err(FromElapsed))
    /\ UNCHANGED << gOp, gCall, gWaited >>
    /\ UNCHANGED notGateway

GatewayNext ==
    \/ GatewayCall
    \/ GatewayAnswer
    \/ GatewayTick
    \/ GatewayElapsed

(***************************************************************************)
(* get_fee_info and get_message_args applied to drawn answers of the node  *)
(***************************************************************************)
GasSamples == { 0, 1, 2, I64Max, I64Max + 1, U64Max }

SimulateResults ==
    { Err(RequestError([code |-> "InvalidArgument", message |-> ""])) }
    \cup { Ok([gas_info |-> Some([gas_wanted |-> I64Max, gas_used |-> g])]) : g \in GasSamples }

BlockParamsResults ==
    { get_block_params(Connected, ans, Connected, legacy) :
        ans \in { ConsensusParams(m) : m \in { 0 - 1, 0, 1, I64Max } }
                \cup { Status("Unimplemented", ""), Status("Unavailable", "") },
        legacy \in { LegacyParams(m) : m \in { 0 - 1, 0, 1, U64Max } } }

FeeInfoInputs ==
    [ sim : SimulateResults, params : BlockParamsResults, fee_token : { FeeCoins } ]

HeightSamples == { 0 - 1, 0, 1, I64Max }

LatestBlockResults ==
    { get_latest_block(Connected, Reply([syncing |-> s]), blk) :
        s \in BOOLEAN,
        blk \in { Status("Unknown", "nil Block"), Reply([block |-> None]),
                  Reply([block |-> Some([header |-> None, last_commit |-> None])]) }
                \cup { Reply([block |-> Some(BlockAt(h))]) : h \in HeightSamples } }

AccountResults ==
    { get_account_info(Connected, ans) :
        ans \in { Status("NotFound", "") }
                \cup { Reply([account |-> Some(BaseAccountAny(q))]) : q \in { 0, 3 } } }

MessageArgsInputs ==
    [ acct : AccountResults, latest : LatestBlockResults,
      fee : { SimulationFee(FeeCoins) },
      timeout_block : { None, Some(0), Some(1), Some(U64Max) } ]

\* answers of the node to the two params queries
\* the answers of a node to the connect, to GetSyncing and to GetLatestBlock
LatestBlockInputs ==
    [ conn : ConnectAnswers,
      sync : { NoAnswer, Status("Unavailable", ""), Reply([syncing |-> TRUE]),
               Reply([syncing |-> FALSE]) },
      blk : { NoAnswer, Status("Unknown", "nil Block"), Status("Unavailable", ""),
              Reply([block |-> None]),
              Reply([block |-> Some([header |-> None, last_commit |-> None])]),
              Reply([block |-> Some(BlockAt(1))]) } ]

\* the max_gas of a chain: -1 is unlimited gas
ChainMaxGas == [ max_gas : { 0 - 1, 0, 1, I64Max } ]

BlockParamsInputs ==
    [ conn : ConnectAnswers,
      ans : { NoAnswer, Status("Unimplemented", ""), Status("Unavailable", ""),
              Status("NotFound", ""), Reply([params |-> None]),
              ConsensusParams(0 - 1), ConsensusParams(1) },
      legacyConn : ConnectAnswers,
      legacyAns : { NoAnswer, Status("Unimplemented", ""), Reply([param |-> None]),
                    LegacyParams(1) } ]

(***************************************************************************)
(* build_tx of the two private keys (private_key.rs)                       *)
(***************************************************************************)
\* a private key is its family and whether its 32 bytes are a scalar of the
\* curve (SecretKey::from_slice accepts them) or all zero
PrivateKeys == [ family : { "Cosmos", "Ethermint" }, scalar : { "valid", "zero" } ]

Bytes32(b) == [ i \in 1..32 |-> b ]

\* secp256k1's sign_ecdsa: some r and s of 32 bytes each
EcdsaSignatures == [ r : { Bytes32(1), Bytes32(255) }, s : { Bytes32(2) } ]
serialize_compact(sig) == sig.r \o sig.s

\* clarity's sign_insecure_msg: r, s and the recovery value v, which clarity
\* numbers 27 and 28
ClaritySignatures == [ r : { Bytes32(1), Bytes32(255) }, s : { Bytes32(2) }, v : { 27, 28 } ]
to_bytes(sig) == sig.r \o sig.s \o << sig.v >>

\* build_tx then the TxRaw of sign_std_msg: the transactions a key can sign
\* for the arguments, or the error of a key that is no scalar
build_tx(key, messageArgs, memo) ==
    IF key.scalar # "valid" THEN { Err(Error("CurveError", << >>)) }
    ELSE LET unfinished == [body |-> [memo |-> memo, timeout_height |-> messageArgs.timeout_height],
                            auth_info |-> [sequence |-> messageArgs.sequence, fee |-> messageArgs.fee]]
         IN  IF key.family = "Cosmos"
             THEN { Ok([body |-> unfinished.body, auth_info |-> unfinished.auth_info,
                        signatures |-> << serialize_compact(sig) >>]) : sig \in EcdsaSignatures }
             ELSE { Ok([body |-> unfinished.body, auth_info |-> unfinished.auth_info,
                        signatures |-> << to_bytes(sig) >>]) : sig \in ClaritySignatures }

BuildTxInputs ==
    [ key : PrivateKeys,
      args : { [sequence |-> q, account_number |-> AccountNumber, chain_id |-> ChainId,
                fee |-> SimulationFee(FeeCoins), timeout_height |-> 0] : q \in { 0, 1 } },
      memo : { MEMO } ]

(***************************************************************************)
(* from_secret and to_public_key (private_key.rs)                          *)
(***************************************************************************)
\* the integers of KeyBytes bytes, and the order of the curve, which lies a
\* little below their modulus
KeyModulus == 256 ^ KeyBytes
CurveN == KeyModulus - 3

\* Uint256::from_be_bytes and Uint256::to_be_bytes
RECURSIVE from_be_bytes(_)
from_be_bytes(bytes) ==
    IF bytes = << >> THEN 0
    ELSE 256 * from_be_bytes(SubSeq(bytes, 1, Len(bytes) - 1)) + bytes[Len(bytes)]

to_be_bytes(i) == [ k \in 1..KeyBytes |-> (i \div (256 ^ (KeyBytes - k))) % 256 ]

\* from_secret reducing modulo the order itself
from_secret_modulo_order(sec_hash) == to_be_bytes(from_be_bytes(sec_hash) % CurveN)

\* from_secret, from the SHA-256 digest of the secret on
from_secret(sec_hash) ==
    LET n == CurveN - 1
        i == (from_be_bytes(sec_hash) % n) + 1
    IN  to_be_bytes(i)

\* SecretKey::from_slice: the bytes of a scalar in 1..(order - 1)
SecretKey_from_slice(bytes) ==
    IF Len(bytes) = KeyBytes /\ from_be_bytes(bytes) \in 1..(CurveN - 1)
    THEN Ok(bytes) ELSE Err(Error("CurveError", << >>))

\* ArrayString::new
MAX_LEN == 32
ArrayString_new(text) ==
    IF Len(text) > MAX_LEN THEN Err(Error("PrefixTooLong", << >>)) ELSE Ok(text)

\* CosmosPrivateKey::to_public_key; the compressed point of a scalar is
\* written as the pair of the generator and the scalar
to_public_key(key, prefix) ==
    LET sk == SecretKey_from_slice(key)
    IN  IF IsErr(sk) THEN sk
        ELSE IF IsErr(ArrayString_new(prefix)) THEN ArrayString_new(prefix)
        ELSE Ok([bytes |-> << "G", Val(sk) >>, prefix |-> Val(ArrayString_new(prefix))])

\* digests at the ends of the range and around the order of the curve, and
\* prefixes that fit and that do not fit an ArrayString
DigestSamples ==
    { to_be_bytes(v) : v \in { 0, 1, 2, 255, 256, CurveN - 2, CurveN - 1, CurveN,
                               CurveN + 1, KeyModulus - 1 } }
PrefixSamples ==
    { << >>, << "c", "o", "s", "m", "o", "s", "p", "u", "b" >>,
      [ k \in 1..MAX_LEN |-> "a" ], [ k \in 1..(MAX_LEN + 1) |-> "a" ] }

FromSecretInputs == [ sec_hash : DigestSamples, prefix : PrefixSamples ]

(***************************************************************************)
(* from_hd_wallet_path (private_key.rs)                                    *)
(***************************************************************************)
U32Modulus == 2 ^ IndexBits

\* str::parse::<u32>(): decimal digits after an optional '+', of a value that
\* fits
ParseU32(text) ==
    LET digits == IF text # << >> /\ Head(text) = "+" THEN Tail(text) ELSE text
    IN  IF /\ digits # << >>
           /\ \A k \in 1..Len(digits) : digits[k] \in Digits
           /\ DecimalValue(digits) < U32Modulus
        THEN Some(DecimalValue(digits)) ELSE None

\* str::trim_matches(ch)
RECURSIVE trim_matches(_, _)
trim_matches(text, ch) ==
    IF text = << >> THEN text
    ELSE IF Head(text) = ch THEN trim_matches(Tail(text), ch)
    ELSE IF text[Len(text)] = ch THEN trim_matches(SubSeq(text, 1, Len(text) - 1), ch)
    ELSE text

Contains(text, ch) == \E k \in 1..Len(text) : text[k] = ch

InvalidPathSpec(hd_path) == Error("InvalidPathSpec", << hd_path >>)

\* get_child_key: a key is written as the child numbers that lead to it from
\* the master key; 2u32.pow(31) + i overflows for a hardened i of 2^31 or more
get_child_key(key, i, hardened) ==
    IF hardened /\ (U32Modulus \div 2) + i >= U32Modulus
    THEN { Panic("private_key.rs:543 add overflow"),
           Ok(Append(key, ((U32Modulus \div 2) + i) % U32Modulus)) }
    ELSE { Ok(Append(key, IF hardened THEN (U32Modulus \div 2) + i ELSE i)) }

\* the loop of from_hd_wallet_path over the parts of the path after the first
RECURSIVE DeriveAlong(_, _, _)
DeriveAlong(key, segments, hd_path) ==
    IF segments = << >> THEN { Ok(key) }
    ELSE LET hardened == Contains(Head(segments), "'")
             val == IF hardened THEN trim_matches(Head(segments), "'") ELSE Head(segments)
             parsed_int == ParseU32(val)
         IN  IF ~IsSome(parsed_int) THEN { Err(InvalidPathSpec(hd_path)) }
             ELSE UNION { IF IsOk(child) THEN DeriveAlong(Val(child), Tail(segments), hd_path)
                          ELSE { child } :
                          child \in get_child_key(key, Unwrap(parsed_int), hardened) }

\* from_hd_wallet_path; key_import is the result of Mnemonic::from_str on the
\* phrase, and a key is written as its mnemonic and the child numbers
from_hd_wallet_path(hd_path, key_import) ==
    IF (hd_path = << >> \/ Head(hd_path) # "m") \/ Contains(hd_path, "\\")
    THEN { Err(InvalidPathSpec(hd_path)) }
    ELSE IF ~IsOk(key_import) THEN { key_import }
    ELSE { IF IsOk(r) THEN Ok([mnemonic |-> Val(key_import), path |-> Val(r)]) ELSE r :
           r \in DeriveAlong(<< >>, Tail(Split(hd_path, "/")), hd_path) }

HdPathSamples ==
    { << "m", "/", "4", "'", "/", "0" >>,
      << "m", "/", "0" >>,
      << "m" >>,
      << "m", "x", "/", "0" >>,
      << "m", "/", "'", "0" >>,
      << "m", "/", "0", "'", "'" >>,
      << "m", "/", "+", "1" >>,
      << "m", "/", "1", "2", "8", "'" >>,
      << "m", "/", "x" >>,
      << "m", "/", "/", "0" >>,
      << "m", "/" >>,
      << "x", "/", "0" >>,
      << "m", "\\", "0" >>,
      << >>,
      << "m", "/", "0", "'", "1" >>,
      << "m", "/", "2", "5", "6" >>,
      << "4", "/", "m" >> }

HdWalletPathInputs ==
    [ hd_path : HdPathSamples,
      key_import : { Ok("mnemonic"), Err(Error("Bip39Error", << "UnknownWord" >>)) } ]

(***************************************************************************)
(* FromStr for CosmosPrivateKey, from_phrase (private_key.rs, utils.rs)    *)
(***************************************************************************)
HexValue ==
    [ ch \in Digits \cup { "a", "b", "c", "d", "e", "f", "A", "B", "C", "D", "E", "F" } |->
        CASE ch = "0" -> 0
          [] ch = "1" -> 1
          [] ch = "2" -> 2
          [] ch = "3" -> 3
          [] ch = "4" -> 4
          [] ch = "5" -> 5
          [] ch = "6" -> 6
          [] ch = "7" -> 7
          [] ch = "8" -> 8
          [] ch = "9" -> 9
          [] ch = "a" -> 10
          [] ch = "b" -> 11
          [] ch = "c" -> 12
          [] ch = "d" -> 13
          [] ch = "e" -> 14
          [] ch = "f" -> 15
          [] ch = "A" -> 10
          [] ch = "B" -> 11
          [] ch = "C" -> 12
          [] ch = "D" -> 13
          [] ch = "E" -> 14
          [] ch = "F" -> 15 ]
HexDigits == DOMAIN HexValue

\* u8::from_str_radix(chunk, 16) on a chunk of one or two characters: hex
\* digits after an optional '+'
U8FromStrRadix16(chunk) ==
    LET digits == IF Head(chunk) = "+" THEN Tail(chunk) ELSE chunk
    IN  IF digits # << >> /\ \A k \in 1..Len(digits) : digits[k] \in HexDigits
        THEN Some(IF Len(digits) = 1 THEN HexValue[digits[1]]
                  ELSE 16 * HexValue[digits[1]] + HexValue[digits[2]])
        ELSE None

\* hex_str_to_bytes: a leading "0x" is dropped, the rest is read in chunks of
\* two characters, the last chunk of an odd length being one character
hex_str_to_bytes(text) ==
    LET t == IF Len(text) >= 2 /\ text[1] = "0" /\ text[2] = "x"
             THEN SubSeq(text, 3, Len(text)) ELSE text
        count == (Len(t) + 1) \div 2
        chunk(k) == SubSeq(t, 2 * k - 1, IF 2 * k <= Len(t) THEN 2 * k ELSE Len(t))
    IN  IF \A k \in 1..count : IsSome(U8FromStrRadix16(chunk(k)))
        THEN Ok([ k \in 1..count |-> Unwrap(U8FromStrRadix16(chunk(k))) ])
        ELSE Err(Error("HexDecodeError", << >>))

contains_non_hex_chars(text) == \E k \in 1..Len(text) : text[k] \notin HexDigits

\* Mnemonic::from_str: the count of the words, the words, the checksum
WordList == { << "a", "b", "a", "n", "d", "o", "n" >>, << "a", "b", "o", "u", "t" >> }
ChecksummedPhrases == { << "a", "b", "a", "n", "d", "o", "n", " ", "a", "b", "a", "n", "d", "o", "n", " ", "a", "b", "a", "n", "d", "o", "n", " ", "a", "b", "a", "n", "d", "o", "n", " ", "a", "b", "a", "n", "d", "o", "n", " ", "a", "b", "a", "n", "d", "o", "n", " ", "a", "b", "a", "n", "d", "o", "n", " ", "a", "b", "a", "n", "d", "o", "n", " ", "a", "b", "a", "n", "d", "o", "n", " ", "a", "b", "a", "n", "d", "o", "n", " ", "a", "b", "a", "n", "d", "o", "n", " ", "a", "b", "o", "u", "t" >> }
Mnemonic_from_str(phrase) ==
    LET words == Split(phrase, " ")
    IN  IF Len(words) \notin { 12, 15, 18, 21, 24 }
        THEN Err(Error("Bip39Error", << "BadWordCount", Len(words) >>))
        ELSE IF \E k \in 1..Len(words) : words[k] \notin WordList
        THEN Err(Error("Bip39Error", << "UnknownWord" >>))
        ELSE IF phrase \notin ChecksummedPhrases
        THEN Err(Error("Bip39Error", << "InvalidChecksum" >>))
        ELSE Ok(phrase)

DEFAULT_COSMOS_HD_PATH == << "m", "/", "4", "4", "'", "/", "1", "1", "8", "'", "/", "0", "'", "/", "0", "/", "0" >>

\* CosmosPrivateKey::from_phrase with the passphrase ""
from_phrase(phrase) ==
    IF phrase = << >> THEN { Err(Error("Bip39Error", << "BadWordCount", 0 >>)) }
    ELSE from_hd_wallet_path(DEFAULT_COSMOS_HD_PATH, Mnemonic_from_str(phrase))

\* from_str handing every text that is not a key of the right length to
\* from_phrase
from_str_phrase_unless_key(text) ==
    IF IsOk(hex_str_to_bytes(text)) /\ Len(Val(hex_str_to_bytes(text))) = KeyBytes
    THEN { Ok([raw |-> Val(hex_str_to_bytes(text))]) }
    ELSE from_phrase(text)

\* impl FromStr for CosmosPrivateKey
from_str(text) ==
    LET bytes == hex_str_to_bytes(text)
    IN  IF IsOk(bytes)
        THEN (IF Len(Val(bytes)) = KeyBytes THEN { Ok([raw |-> Val(bytes)]) }
              ELSE { Err(Error("HexDecodeErrorWrongLength", << >>)) })
        ELSE IF contains_non_hex_chars(text) THEN from_phrase(text)
        ELSE { bytes }

\* texts given to from_str: hex of the length of a key and of other lengths,
\* with a prefix or a sign, texts that are no hex, phrases
PrivateKeyTexts ==
    { << "a", "b", "c", "d" >>,
      << "A", "B", "c", "d" >>,
      << "a", "b" >>,
      << "a", "b", "c" >>,
      << "a", "b", "c", "d", "e" >>,
      << "a", "b", "c", "d", "e", "f" >>,
      << "0", "x", "a", "b", "c", "d" >>,
      << >>,
      << "+", "a", "+", "b" >>,
      << "z", "z" >>,
      << "a", "b", "c", "g" >>,
      << "a", "b", "o", "u", "t" >>,
      << "a", "b", "a", "n", "d", "o", "n", " ", "a", "b", "a", "n", "d", "o", "n", " ", "a", "b", "a", "n", "d", "o", "n", " ", "a", "b", "a", "n", "d", "o", "n", " ", "a", "b", "a", "n", "d", "o", "n", " ", "a", "b", "a", "n", "d", "o", "n", " ", "a", "b", "a", "n", "d", "o", "n", " ", "a", "b", "a", "n", "d", "o", "n", " ", "a", "b", "a", "n", "d", "o", "n", " ", "a", "b", "a", "n", "d", "o", "n", " ", "a", "b", "a", "n", "d", "o", "n", " ", "a", "b", "o", "u", "t" >>,
      << "a", "b", "a", "n", "d", "o", "n", " ", "a", "b", "a", "n", "d", "o", "n", " ", "a", "b", "a", "n", "d", "o", "n", " ", "a", "b", "a", "n", "d", "o", "n", " ", "a", "b", "a", "n", "d", "o", "n", " ", "a", "b", "a", "n", "d", "o", "n", " ", "a", "b", "a", "n", "d", "o", "n", " ", "a", "b", "a", "n", "d", "o", "n", " ", "a", "b", "a", "n", "d", "o", "n", " ", "a", "b", "a", "n", "d", "o", "n", " ", "a", "b", "a", "n", "d", "o", "n", " ", "a", "b", "a", "n", "d", "o", "n" >> }

(***************************************************************************)
(* FromStr for CosmosPublicKey (public_key.rs)                             *)
(***************************************************************************)
LowerCase == << "a", "b", "c", "d", "e", "f", "g", "h", "i", "j", "k", "l", "m", "n", "o", "p", "q", "r", "s", "t", "u", "v", "w", "x", "y", "z" >>
UpperCase == << "A", "B", "C", "D", "E", "F", "G", "H", "I", "J", "K", "L", "M", "N", "O", "P", "Q", "R", "S", "T", "U", "V", "W", "X", "Y", "Z" >>
IndexIn(seq, ch) == CHOOSE k \in 1..Len(seq) : seq[k] = ch
IsIn(seq, ch) == \E k \in 1..Len(seq) : seq[k] = ch

\* the code of an ASCII letter or digit
Ascii(ch) ==
    IF IsIn(LowerCase, ch) THEN 96 + IndexIn(LowerCase, ch)
    ELSE IF IsIn(UpperCase, ch) THEN 64 + IndexIn(UpperCase, ch)
    ELSE IF ch = " " THEN 32
    ELSE 48 + DigitValue[ch]

ToLower(ch) == IF IsIn(UpperCase, ch) THEN LowerCase[IndexIn(UpperCase, ch)] ELSE ch

RECURSIVE XorBits(_, _)
XorBits(a, b) ==
    IF a = 0 THEN b
    ELSE IF b = 0 THEN a
    ELSE 2 * XorBits(a \div 2, b \div 2) + ((a + b) % 2)

\* the exclusive or of two values below 2^30, five bits at a time
Xor5 == [ a \in 0..31 |-> [ b \in 0..31 |-> XorBits(a, b) ] ]
Xor(a, b) ==
    Xor5[a % 32][b % 32]
    + 32 * Xor5[(a \div 32) % 32][(b \div 32) % 32]
    + 1024 * Xor5[(a \div 1024) % 32][(b \div 1024) % 32]
    + 32768 * Xor5[(a \div 32768) % 32][(b \div 32768) % 32]
    + 1048576 * Xor5[(a \div 1048576) % 32][(b \div 1048576) % 32]
    + 33554432 * Xor5[a \div 33554432][b \div 33554432]

\* bech32: the character set, the generator of the checksum and its polymod
Bech32Charset == << "q", "p", "z", "r", "y", "9", "x", "8", "g", "f", "2", "t", "v", "d", "w", "0", "s", "3", "j", "n", "5", "4", "k", "h", "c", "e", "6", "m", "u", "a", "7", "l" >>
Bech32Generator == << 996825010, 642813549, 513874426, 1027748829, 705979059 >>

RECURSIVE PolymodGen(_, _, _)
PolymodGen(chk, top, i) ==
    IF i > 5 THEN chk
    ELSE PolymodGen(IF (top \div (2 ^ (i - 1))) % 2 = 1 THEN Xor(chk, Bech32Generator[i]) ELSE chk,
                    top, i + 1)

\* the polymod of values[lo..hi], continued from chk (the left half is
\* computed, by the test of its sign, before the right half starts from it)
RECURSIVE Polymod(_, _, _, _)
Polymod(chk, values, lo, hi) ==
    IF lo > hi THEN chk
    ELSE IF lo = hi
    THEN PolymodGen(Xor((chk % 33554432) * 32, values[lo]), chk \div 33554432, 1)
    ELSE LET mid == (lo + hi) \div 2
             left == Polymod(chk, values, lo, mid)
         IN  IF left >= 0 THEN Polymod(left, values, mid + 1, hi) ELSE left

\* bech32::decode: the hrp and the 5-bit data of a text whose checksum holds,
\* in either variant (1 is the constant of Bech32, 0x2bc830a3 that of Bech32m)
bech32_decode(text) ==
    LET mixed == /\ \E k \in 1..Len(text) : IsIn(UpperCase, text[k])
                 /\ \E k \in 1..Len(text) : IsIn(LowerCase, text[k])
        t == [ k \in 1..Len(text) |-> ToLower(text[k]) ]
        seps == { k \in 1..Len(t) : t[k] = "1" }
        pos == CHOOSE k \in seps : \A other \in seps : other <= k
        hrp == SubSeq(t, 1, pos - 1)
        data == SubSeq(t, pos + 1, Len(t))
        values == [ k \in 1..Len(data) |-> IndexIn(Bech32Charset, data[k]) - 1 ]
        expanded == [ k \in 1..Len(hrp) |-> Ascii(hrp[k]) \div 32 ] \o << 0 >>
                    \o [ k \in 1..Len(hrp) |-> Ascii(hrp[k]) % 32 ]
    IN  IF mixed \/ seps = { } THEN None
        ELSE IF hrp = << >> \/ Len(data) < 6 THEN None
        ELSE IF \E k \in 1..Len(hrp) : Ascii(hrp[k]) < 33 \/ Ascii(hrp[k]) > 126 THEN None
        ELSE IF \E k \in 1..Len(data) : ~IsIn(Bech32Charset, data[k]) THEN None
        ELSE IF Polymod(1, expanded \o values, 1, Len(expanded) + Len(values))
                  \notin { 1, 734539939 } THEN None
        ELSE Some([hrp |-> hrp, data |-> SubSeq(values, 1, Len(values) - 6)])

\* FromBase32::from_base32: the bytes of 5-bit values, without padding bits
\* that are set or make up a value
Sum8(f) == f[0] + f[1] + f[2] + f[3] + f[4] + f[5] + f[6] + f[7]
ConvertBits(values) ==
    LET bit(j) == (values[(j \div 5) + 1] \div (2 ^ (4 - (j % 5)))) % 2
        total == 5 * Len(values)
        left == total % 8
    IN  IF left >= 5 \/ \E j \in (total - left)..(total - 1) : bit(j) = 1
        THEN None
        ELSE Some([ k \in 1..(total \div 8) |->
                      Sum8([ i \in 0..7 |-> bit(8 * (k - 1) + i) * (2 ^ (7 - i)) ]) ])

\* PublicKey::from_bytes
from_bytes(bytes, prefix) ==
    IF IsErr(ArrayString_new(prefix)) THEN ArrayString_new(prefix)
    ELSE Ok([bytes |-> bytes, prefix |-> prefix])

\* fn from_bech32
from_bech32(text) ==
    LET decoded == bech32_decode(text)
        vec == ConvertBits(Unwrap(decoded).data)
    IN  IF ~IsSome(decoded) THEN Err(Error("Bech32InvalidEncoding", << >>))
        ELSE IF ~IsSome(vec) THEN Err(Error("Bech32InvalidBase32", << >>))
        ELSE IF Len(Unwrap(vec)) # 38 THEN Err(Error("Bech32WrongLength", << >>))
        ELSE from_bytes(SubSeq(Unwrap(vec), 6, 38), Unwrap(decoded).hrp)

\* base64::decode of a text without padding characters
Base64Alphabet == UpperCase \o LowerCase \o DigitChars \o << "+", "/" >>
base64_decode(text) ==
    LET v(k) == IndexIn(Base64Alphabet, text[k]) - 1
        group(g) == ((v(4 * g - 3) * 64 + v(4 * g - 2)) * 64 + v(4 * g - 1)) * 64 + v(4 * g)
    IN  IF Len(text) % 4 # 0 \/ \E k \in 1..Len(text) : ~IsIn(Base64Alphabet, text[k])
        THEN Err(Error("Base64DecodeError", << >>))
        ELSE Ok([ k \in 1..(3 * (Len(text) \div 4)) |->
                    LET g == group((k + 2) \div 3)
                    IN  CASE k % 3 = 1 -> g \div 65536
                          [] k % 3 = 2 -> (g \div 256) % 256
                          [] k % 3 = 0 -> g % 256 ])

DEFAULT_PREFIX == << "c", "o", "s", "m", "o", "s", "p", "u", "b" >>

\* impl FromStr for CosmosPublicKey
PublicKey_from_str(text) ==
    IF IsOk(from_bech32(text)) THEN from_bech32(text)
    ELSE IF IsOk(hex_str_to_bytes(text))
    THEN (IF Len(Val(hex_str_to_bytes(text))) = 33
          THEN from_bytes(Val(hex_str_to_bytes(text)), DEFAULT_PREFIX)
          ELSE Err(Error("HexDecodeErrorWrongLength", << >>)))
    ELSE IF IsOk(base64_decode(text))
    THEN (IF Len(Val(base64_decode(text))) = 33
          THEN from_bytes(Val(base64_decode(text)), DEFAULT_PREFIX)
          ELSE Err(Error("BytesDecodeErrorWrongLength", << >>)))
    ELSE base64_decode(text)

\* keys of 33 bytes: that of check_bech32, that of parse_base64_pubkey, and
\* the bytes of test_default_prefix
PublicKeyBytes ==
    { << 2, 150, 81, 169, 170, 196, 194, 43, 39, 179, 1, 154, 238, 109, 247, 70, 38,
       110, 26, 231, 70, 238, 121, 119, 42, 110, 94, 173, 25, 142, 189, 7, 195 >>,
      << 2, 240, 195, 79, 92, 88, 238, 21, 202, 79, 46, 68, 74, 167, 36, 54, 144,
       91, 64, 128, 43, 78, 71, 246, 212, 39, 203, 20, 57, 230, 89, 70, 56 >>,
      [ k \in 1..33 |-> 0 ] }

\* bytes_to_hex_str
HexChars == DigitChars \o << "a", "b", "c", "d", "e", "f" >>
bytes_to_hex_str(bytes) ==
    [ k \in 1..(2 * Len(bytes)) |->
        IF k % 2 = 1 THEN HexChars[(bytes[(k + 1) \div 2] \div 16) + 1]
        ELSE HexChars[(bytes[k \div 2] % 16) + 1] ]

\* the standard base64 text of bytes whose count is a multiple of 3
base64_encode(bytes) ==
    [ k \in 1..(4 * (Len(bytes) \div 3)) |->
        LET g == (k + 3) \div 4
            v == (bytes[3 * g - 2] * 256 + bytes[3 * g - 1]) * 256 + bytes[3 * g]
        IN  Base64Alphabet[((v \div (64 ^ (3 - ((k - 1) % 4)))) % 64) + 1] ]

\* the bech32 text of check_bech32 and the key it spells
Bech32KeyText ==
    << "c", "o", "s", "m", "o", "s", "p", "u", "b", "1", "a", "d", "d", "w", "n", "p", "e", "p", "q", "2",
    "t", "9", "r", "2", "d", "2", "c", "n", "p", "z", "k", "f", "a", "n", "q", "x", "d", "w", "u", "m",
    "0", "h", "g", "c", "n", "x", "u", "x", "h", "8", "g", "m", "h", "8", "j", "a", "e", "2", "d", "e",
    "0", "2", "6", "x", "v", "w", "h", "5", "r", "u", "x", "u", "v", "5", "l", "e", "t" >>
Bech32KeyBytes ==
    << 2, 150, 81, 169, 170, 196, 194, 43, 39, 179, 1, 154, 238, 109, 247, 70, 38,
       110, 26, 231, 70, 238, 121, 119, 42, 110, 94, 173, 25, 142, 189, 7, 195 >>

\* the texts of keys given to from_str, with the bytes they encode
PublicKeyTexts ==
    { [form |-> "bech32", text |-> Bech32KeyText, bytes |-> Bech32KeyBytes] }
    \cup { [form |-> "hex", text |-> bytes_to_hex_str(b), bytes |-> b] : b \in PublicKeyBytes }
    \cup { [form |-> "base64", text |-> base64_encode(b), bytes |-> b] : b \in PublicKeyBytes }

(***************************************************************************)
(* Address (address.rs) and the derivation of addresses (public_key.rs)    *)
(***************************************************************************)
HasUpper(text) == \E k \in 1..Len(text) : IsIn(UpperCase, text[k])
HasLower(text) == \E k \in 1..Len(text) : IsIn(LowerCase, text[k])

\* bech32's check of a human-readable part: its case, or the error
check_hrp(hrp) ==
    IF hrp = << >> \/ Len(hrp) > 83 THEN Err("InvalidLength")
    ELSE IF \E k \in 1..Len(hrp) : Ascii(hrp[k]) < 33 \/ Ascii(hrp[k]) > 126
    THEN Err("InvalidChar")
    ELSE IF HasUpper(hrp) /\ HasLower(hrp) THEN Err("MixedCase")
    ELSE Ok(IF HasUpper(hrp) THEN "Upper" ELSE IF HasLower(hrp) THEN "Lower" ELSE "None")

\* ToBase32::to_base32: the 5-bit values of bytes, the last padded with zeros
Sum5(f) == f[0] + f[1] + f[2] + f[3] + f[4]
to_base32(bytes) ==
    LET total == 8 * Len(bytes)
        bit(j) == IF j >= total THEN 0
                  ELSE (bytes[(j \div 8) + 1] \div (2 ^ (7 - (j % 8)))) % 2
    IN  [ k \in 1..((total + 4) \div 5) |->
            Sum5([ i \in 0..4 |-> bit(5 * (k - 1) + i) * (2 ^ (4 - i)) ]) ]

\* bech32::encode with Variant::Bech32: the part is written in lower case
bech32_encode(hrp, data) ==
    LET lower == [ k \in 1..Len(hrp) |-> ToLower(hrp[k]) ]
        expanded == [ k \in 1..Len(lower) |-> Ascii(lower[k]) \div 32 ] \o << 0 >>
                    \o [ k \in 1..Len(lower) |-> Ascii(lower[k]) % 32 ]
        padded == expanded \o data \o << 0, 0, 0, 0, 0, 0 >>
        plm == Xor(Polymod(1, padded, 1, Len(padded)), 1)
        checksum == [ i \in 1..6 |-> (plm \div (32 ^ (6 - i))) % 32 ]
        values == data \o checksum
    IN  IF IsErr(check_hrp(hrp)) THEN check_hrp(hrp)
        ELSE Ok(lower \o << "1" >> \o [ k \in 1..Len(values) |-> Bech32Charset[values[k] + 1] ])

\* impl From<bech32::Error> for AddressError
AddressErrorFromBech32(e) ==
    CASE e = "InvalidLength" -> Error("Bech32WrongLength", << >>)
      [] e = "InvalidChar" -> Error("Bech32InvalidBase32", << >>)
      [] OTHER -> Error("Bech32InvalidEncoding", << >>)

\* BaseAddress::from_bytes and DerivedAddress::from_bytes
Address_from_bytes(variant, bytes, prefix) ==
    IF IsErr(ArrayString_new(prefix)) THEN ArrayString_new(prefix)
    ELSE Ok([variant |-> variant, bytes |-> bytes, prefix |-> prefix])

\* Address::from_slice
Address_from_slice(bytes, prefix) ==
    CASE Len(bytes) = 20 -> Address_from_bytes("Base", bytes, prefix)
      [] Len(bytes) = 32 -> Address_from_bytes("Derived", bytes, prefix)
      [] OTHER -> Err(Error("BytesDecodeErrorWrongLength", << >>))

\* Address::from_bech32
Address_from_bech32(text) ==
    LET decoded == bech32_decode(text)
        vec == ConvertBits(Unwrap(decoded).data)
    IN  IF ~IsSome(decoded) THEN Err(Error("Bech32InvalidEncoding", << >>))
        ELSE IF ~IsSome(vec) THEN Err(Error("Bech32InvalidBase32", << >>))
        ELSE CASE Len(Unwrap(vec)) = 20 ->
                    Address_from_bytes("Base", Unwrap(vec), Unwrap(decoded).hrp)
               [] Len(Unwrap(vec)) = 32 ->
                    Address_from_bytes("Derived", Unwrap(vec), Unwrap(decoded).hrp)
               [] OTHER -> Err(Error("Bech32WrongLength", << >>))

\* Address::to_bech32
Address_to_bech32(a, hrp) ==
    LET encoded == bech32_encode(hrp, to_base32(a.bytes))
    IN  IF IsErr(encoded) THEN Err(AddressErrorFromBech32(Val(encoded))) ELSE encoded

\* Address::change_prefix: the address afterwards, or the error
change_prefix(a, prefix) ==
    IF IsErr(ArrayString_new(prefix)) THEN ArrayString_new(prefix)
    ELSE Ok([a EXCEPT !.prefix = prefix])

ADDRESS_DEFAULT_PREFIX == << "c", "o", "s", "m", "o", "s" >>

\* impl FromStr for Address
Address_from_str(text) ==
    IF contains_non_hex_chars(text) THEN Address_from_bech32(text)
    ELSE IF IsOk(hex_str_to_bytes(text))
    THEN Address_from_slice(Val(hex_str_to_bytes(text)), ADDRESS_DEFAULT_PREFIX)
    ELSE Err(Error("HexDecodeError", << Val(hex_str_to_bytes(text)) >>))

\* impl Display for Address (and Debug, and Serialize through to_string)
Address_to_string(a) ==
    IF IsOk(Address_to_bech32(a, a.prefix)) THEN Address_to_bech32(a, a.prefix)
    ELSE Panic("address.rs:188 unwrap()")

\* the public keys of test_secret and of test_ethermint_compatibility, and
\* 33 zero bytes (test_default_prefix)
MySecretKey ==
    << 2, 150, 81, 169, 170, 196, 194, 43, 39, 179, 1, 154, 238, 109, 247, 70, 38,
       110, 26, 231, 70, 238, 121, 119, 42, 110, 94, 173, 25, 142, 189, 7, 195 >>
EvmosKey ==
    << 2, 254, 210, 192, 177, 135, 55, 151, 190, 89, 91, 139, 129, 137, 249, 173, 246,
       129, 117, 14, 86, 150, 150, 172, 50, 33, 2, 122, 65, 161, 255, 147, 244 >>
ZeroKey == [ k \in 1..33 |-> 0 ]
DerivationKeys == { MySecretKey, EvmosKey, ZeroKey }

\* Ripemd160(Sha256(bytes)) of these keys
Ripemd160Sha256(bytes) ==
    CASE bytes = MySecretKey ->
           << 153, 188, 192, 0, 247, 129, 15, 139, 187, 42, 246, 240, 58, 227, 125, 19, 93,
              200, 120, 82 >>
      [] bytes = EvmosKey ->
           << 233, 176, 76, 209, 41, 23, 181, 228, 230, 197, 25, 249, 108, 47, 131, 181, 149,
              152, 56, 210 >>
      [] bytes = ZeroKey ->
           << 41, 207, 198, 55, 98, 85, 167, 132, 81, 238, 180, 177, 41, 237, 142, 172, 255,
              162, 254, 239 >>

\* Keccak256 of the uncompressed point, bytes 12..32; no value where the
\* bytes are not a point of the curve
Keccak256Tail(bytes) ==
    CASE bytes = MySecretKey ->
           Some(<< 35, 150, 228, 157, 17, 205, 93, 151, 21, 36, 19, 113, 126, 207, 85, 246, 102,
                   47, 160, 97 >>)
      [] bytes = EvmosKey ->
           Some(<< 21, 185, 57, 84, 170, 164, 127, 141, 57, 27, 122, 3, 73, 216, 246, 146, 167,
                   222, 173, 242 >>)
      [] bytes = ZeroKey -> None

ends_with(text, suffix) ==
    /\ Len(text) >= Len(suffix)
    /\ SubSeq(text, Len(text) - Len(suffix) + 1, Len(text)) = suffix

\* str::trim_end_matches: every repetition of the suffix is removed
RECURSIVE trim_end_matches(_, _)
trim_end_matches(text, suffix) ==
    IF ends_with(text, suffix)
    THEN trim_end_matches(SubSeq(text, 1, Len(text) - Len(suffix)), suffix)
    ELSE text

Pub == << "p", "u", "b" >>

\* CosmosPublicKey::to_address_with_prefix
Cosmos_to_address_with_prefix(key, prefix) ==
    Address_from_slice(Ripemd160Sha256(key.bytes), prefix)

\* CosmosPublicKey::to_address
Cosmos_to_address(key) ==
    LET new_prefix == IF ends_with(key.prefix, Pub) THEN trim_end_matches(key.prefix, Pub)
                      ELSE key.prefix
        made == Cosmos_to_address_with_prefix(key, new_prefix)
    IN  IF IsOk(made) THEN made ELSE Panic("public_key.rs:104 unwrap()")

\* EthermintPublicKey::to_address_with_prefix
Ethermint_to_address_with_prefix(key, prefix) ==
    IF ~IsSome(Keccak256Tail(key.bytes)) THEN Panic("public_key.rs:195 unwrap()")
    ELSE IF IsOk(Address_from_slice(Unwrap(Keccak256Tail(key.bytes)), prefix))
    THEN Address_from_slice(Unwrap(Keccak256Tail(key.bytes)), prefix)
    ELSE Panic("public_key.rs:200 unwrap()")

\* EthermintPublicKey::to_address
Ethermint_to_address(key) ==
    LET made == Ethermint_to_address_with_prefix(key, key.prefix)
    IN  IF IsErr(made) THEN Panic("public_key.rs:191 unwrap()") ELSE made

\* Sha256 of the names of modules, bytes 0..20
ModuleNames == { << "m", "i", "n", "t" >>, << "d", "i", "s", "t", "r", "i", "b", "u", "t", "i", "o", "n" >> }
Sha256Head(module_name) ==
    CASE module_name = << "m", "i", "n", "t" >> ->
           << 220, 111, 23, 187, 236, 130, 79, 255, 143, 134, 88, 121, 102, 178, 4, 125, 182,
              171, 115, 103 >>
      [] module_name = << "d", "i", "s", "t", "r", "i", "b", "u", "t", "i", "o", "n" >> ->
           << 147, 53, 72, 69, 3, 2, 116, 205, 75, 241, 104, 106, 189, 96, 171, 40, 236,
              82, 225, 167 >>

\* get_module_account_address
get_module_account_address(module_name, prefix) ==
    Address_from_slice(Sha256Head(module_name),
                       IF IsSome(prefix) THEN Unwrap(prefix) ELSE ADDRESS_DEFAULT_PREFIX)

\* tx responses of an insufficient fee: the text of the coins got, the coins
\* required, and the gas the response reports
Coin(amount, denom) == [amount |-> amount, denom |-> denom]

\* coins written by Display, and texts given to Coin::from_str: those of
\* test_coin_parse (with shorter amounts) and texts that are no coin
CoinAmounts == { 0, 1, 9, 10, 100, 255 }
CoinDenoms == { << "x" >>, << "u", "a" >>, << "F", "o", "o" >>, << "e" >>,
                << "f", "o", "o", "t", "o", "k", "e", "n" >> }
CoinTextSamples ==
    { << "1", "0", "0", "f", "o", "o", "t", "o", "k", "e", "n" >>, << "1", "g", "r", "a", "v", "i", "t", "y", "0", "x", "7", "5", "8", "0", "b", "F", "E", "8" >>, << " ", "5", "u", "a", " " >>, << "0", "0", "7", "a" >>, << "1", "2" >>, << "a", "b", "c" >>, << "1", "_", "a" >>, << "5", " ", "a" >>, << >> }
CoinInputs ==
    { [text |-> CoinText(Coin(a, d)), coin |-> Some(Coin(a, d))] : a \in CoinAmounts, d \in CoinDenoms }
    \cup { [text |-> t, coin |-> None] : t \in CoinTextSamples }

InsufficientFeeInputs ==
    [ got : { << >>, << "1", "f", "o", "o" >>, << "1", "f", "o", "o", ",", "2", "b", "a", "r" >>,
              << "1", "i", "b", "c", ":", "x" >> },
      required : { << Coin(5, << "u", "a" >>) >>,
                   << Coin(50, << "u", "a" >>), Coin(2, << "u", "f", "o" >>) >> },
      gas : { << 0, 0 >>, << 2, 1 >>, << 1, 2 >> } ]

InsufficientFeeResponse(in) ==
    TxResponse(1, "sdk", 13, in.gas[1], in.gas[2],
               InsufficientFeeRawLog(in.got, CoinsText(in.required)))

\* the u32 codes tried: those around the codes in use
CodeSamples == 0..42 \cup { 111221, 111222, 111223 }

SdkErrorCodeInputs ==
    { [variant |-> SdkErrorCode[i]] : i \in 1..Len(SdkErrorCode) }
    \cup { [code |-> n] : n \in CodeSamples }

\* the type_url of each account message, in the order of AccountTypeNames,
\* and one of no account message
AccountTypeUrls ==
    << "/cosmos.auth.v1beta1.BaseAccount",
       "/cosmos.vesting.v1beta1.ContinuousVestingAccount",
       "/cosmos.vesting.v1beta1.PeriodicVestingAccount",
       "/cosmos.vesting.v1beta1.DelayedVestingAccount",
       "/cosmos.auth.v1beta1.ModuleAccount",
       "/cosmos.vesting.v1beta1.PermanentLockedAccount" >>
OtherTypeUrl == "/cosmos.bank.v1beta1.MsgSend"

\* the sets of account messages some bytes can decode as: the vesting
\* messages share field 1, Delayed and PermanentLocked have no other field,
\* Continuous adds start_time and Periodic adds vesting_periods to that, so
\* bytes that decode as one with more fields decode as those with fewer
Decodings ==
    { d \in SUBSET { AccountTypeNames[n] : n \in 1..Len(AccountTypeNames) } :
        /\ "PeriodicVestingAccount" \in d => "ContinuousVestingAccount" \in d
        /\ "ContinuousVestingAccount" \in d => "DelayedVestingAccount" \in d
        /\ "DelayedVestingAccount" \in d <=> "PermenantLockedAccount" \in d }

\* the Anys a node sends: the encoding of an account message under its own
\* type_url, and any bytes under the type_url of another message
AccountAnys ==
    { [type_url |-> AccountTypeUrls[nd[1]], decodes |-> nd[2],
       base |-> [account_number |-> AccountNumber, sequence |-> 0]] :
        nd \in { x \in (1..Len(AccountTypeUrls)) \X Decodings :
                   AccountTypeNames[x[1]] \in x[2] } }
    \cup { [type_url |-> OtherTypeUrl, decodes |-> d,
            base |-> [account_number |-> AccountNumber, sequence |-> 0]] : d \in Decodings }

\* tx responses of either codespace, of codes the enumeration has and has
\* not, of every order of gas_wanted and gas_used, and of raw logs of one,
\* two and four ':'-separated parts
TxResponseInputs ==
    { TxResponse(1, codespace, code, gas[1], gas[2], raw_log) :
        codespace \in { "sdk", "wasm" },
        code \in { 0, 5, 13, 41, 111222 },
        gas \in { << 1, 1 >>, << 2, 1 >>, << 1, 2 >>, << 0 - 2, 0 - 1 >> },
        raw_log \in { PlainLog, << "a", ":", "b" >>, InsufficientFeeLog } }

PureInit ==
    /\ output = None
    /\ \/ fn = "get_fee_info" /\ input \in FeeInfoInputs
       \/ fn = "get_message_args" /\ input \in MessageArgsInputs
       \/ fn = "get_block_params" /\ input \in BlockParamsInputs
       \/ fn = "check_for_sdk_error" /\ input \in InsufficientFeeInputs
       \/ fn = "check_for_sdk_error of a response" /\ input \in TxResponseInputs
       \/ fn = "SdkErrorCode" /\ input \in SdkErrorCodeInputs
       \/ fn = "decode_from_any" /\ input \in AccountAnys
       \/ fn = "build_tx" /\ input \in BuildTxInputs
       \/ fn = "from_secret" /\ input \in FromSecretInputs
       \/ fn = "from_hd_wallet_path" /\ input \in HdWalletPathInputs
       \/ fn = "from_str" /\ input \in { [s |-> text] : text \in PrivateKeyTexts }
       \/ fn = "PublicKey::from_str" /\ input \in PublicKeyTexts
       \/ fn = "Coin::from_str" /\ input \in CoinInputs
       \/ fn = "get_block_params of a chain" /\ input \in ChainMaxGas
       \/ fn = "get_latest_block" /\ input \in LatestBlockInputs

PureParked ==
    /\ fn = "none"
    /\ input = None
    /\ output = None

apply_get_fee_info ==
    /\ fn = "get_fee_info"
    /\ output = None
    /\ \E r \in get_fee_info(input.sim, input.params, input.fee_token) : output' = Some(r)
    /\ UNCHANGED << fn, input >>
    /\ UNCHANGED notPure

apply_get_message_args ==
    /\ fn = "get_message_args"
    /\ output = None
    /\ \E r \in get_message_args(input.acct, input.latest, input.fee, input.timeout_block) :
          output' = Some(r)
    /\ UNCHANGED << fn, input >>
    /\ UNCHANGED notPure

apply_get_block_params ==
    /\ fn = "get_block_params"
    /\ output = None
    /\ output' = Some(get_block_params_calls(input.conn, input.ans,
                                             input.legacyConn, input.legacyAns))
    /\ UNCHANGED << fn, input >>
    /\ UNCHANGED notPure

apply_check_for_sdk_error_of_a_response ==
    /\ fn = "check_for_sdk_error of a response"
    /\ output = None
    /\ output' = Some([ret |-> check_for_sdk_error(input)])
    /\ UNCHANGED << fn, input >>
    /\ UNCHANGED notPure

apply_check_for_sdk_error ==
    /\ fn = "check_for_sdk_error"
    /\ output = None
    /\ output' = Some([fee_info |-> determine_min_fees_and_gas(InsufficientFeeResponse(input)),
                       ret |-> check_for_sdk_error(InsufficientFeeResponse(input))])
    /\ UNCHANGED << fn, input >>
    /\ UNCHANGED notPure

\* get_code of a variant followed by from_code of its code
apply_get_code ==
    /\ fn = "SdkErrorCode"
    /\ output = None
    /\ "variant" \in DOMAIN input
    /\ output' = Some([code |-> get_code(input.variant),
                       back |-> from_code(get_code(input.variant))])
    /\ UNCHANGED << fn, input >>
    /\ UNCHANGED notPure

apply_from_code ==
    /\ fn = "SdkErrorCode"
    /\ output = None
    /\ "code" \in DOMAIN input
    /\ output' = Some([variant |-> from_code(input.code)])
    /\ UNCHANGED << fn, input >>
    /\ UNCHANGED notPure

apply_decode_from_any ==
    /\ fn = "decode_from_any"
    /\ output = None
    /\ output' = Some(decode_from_any(input))
    /\ UNCHANGED << fn, input >>
    /\ UNCHANGED notPure

apply_build_tx ==
    /\ fn = "build_tx"
    /\ output = None
    /\ \E r \in build_tx(input.key, input.args, input.memo) : output' = Some(r)
    /\ UNCHANGED << fn, input >>
    /\ UNCHANGED notPure

\* from_secret, then to_public_key on the key
apply_from_secret ==
    /\ fn = "from_secret"
    /\ output = None
    /\ output' = Some([key |-> from_secret(input.sec_hash),
                       public |-> to_public_key(from_secret(input.sec_hash), input.prefix)])
    /\ UNCHANGED << fn, input >>
    /\ UNCHANGED notPure

apply_from_hd_wallet_path ==
    /\ fn = "from_hd_wallet_path"
    /\ output = None
    /\ \E r \in from_hd_wallet_path(input.hd_path, input.key_import) : output' = Some(r)
    /\ UNCHANGED << fn, input >>
    /\ UNCHANGED notPure

apply_from_str ==
    /\ fn = "from_str"
    /\ output = None
    /\ \E r \in from_str(input.s) : output' = Some(r)
    /\ UNCHANGED << fn, input >>
    /\ UNCHANGED notPure

apply_PublicKey_from_str ==
    /\ fn = "PublicKey::from_str"
    /\ output = None
    /\ output' = Some(PublicKey_from_str(input.text))
    /\ UNCHANGED << fn, input >>
    /\ UNCHANGED notPure

\* get_block_params of a chain of the parameter max_gas, once against a node
\* with the consensus params endpoint and once against a node without it
apply_get_block_params_of_a_chain ==
    /\ fn = "get_block_params of a chain"
    /\ output = None
    /\ output' = Some([consensus |-> get_block_params(Connected, ConsensusParams(input.max_gas),
                                                      NoAnswer, NoAnswer),
                       legacy |-> get_block_params(Connected, Status("Unimplemented", ""),
                                                   Connected, LegacyParams(input.max_gas))])
    /\ UNCHANGED << fn, input >>
    /\ UNCHANGED notPure

\* get_latest_block, and get_chain_status on the same answers of the node
apply_get_latest_block ==
    /\ fn = "get_latest_block"
    /\ output = None
    /\ output' = Some([latest |-> get_latest_block(input.conn, input.sync, input.blk),
                       status |-> get_chain_status(input.conn, input.sync, input.blk)])
    /\ UNCHANGED << fn, input >>
    /\ UNCHANGED notPure

apply_Coin_from_str ==
    /\ fn = "Coin::from_str"
    /\ output = None
    /\ output' = Some(CoinFromStr(input.text))
    /\ UNCHANGED << fn, input >>
    /\ UNCHANGED notPure

PureNext ==
    \/ apply_get_fee_info
    \/ apply_get_message_args
    \/ apply_get_block_params
    \/ apply_check_for_sdk_error
    \/ apply_check_for_sdk_error_of_a_response
    \/ apply_get_code
    \/ apply_from_code
    \/ apply_decode_from_any
    \/ apply_build_tx
    \/ apply_from_secret
    \/ apply_from_hd_wallet_path
    \/ apply_from_str
    \/ apply_PublicKey_from_str
    \/ apply_Coin_from_str
    \/ apply_get_block_params_of_a_chain
    \/ apply_get_latest_block

(***************************************************************************)
(* Specifications                                                          *)
(***************************************************************************)
(***************************************************************************)
(* The callers of Address                                                  *)
(***************************************************************************)
AddressInit ==
    /\ address = None
    /\ called = None

\* the byte strings given to from_slice: of test_bech32, of 32 bytes, and of
\* a length that is neither
AddressByteSamples ==
    { [ k \in 1..20 |-> 0 ], [ k \in 1..32 |-> 0 ], [ k \in 1..19 |-> 0 ] }

\* prefixes a caller may give
AddressPrefixes ==
    { ADDRESS_DEFAULT_PREFIX, << >>, << "C", "O", "S", "M", "O", "S" >>, << "C", "o", "s" >>,
      [ k \in 1..33 |-> "a" ] }

\* prefixes of public keys
KeyPrefixes == { DEFAULT_PREFIX, Pub, DEFAULT_PREFIX \o Pub, << "e", "v", "m", "o", "s" >> }

\* the texts of test_bech32 and texts that are no address
AddressTextSamples ==
    { << "c", "o", "s", "m", "o", "s", "1", "q", "q", "q", "q", "q", "q", "q", "q", "q", "q", "q", "q", "q", "q", "q", "q", "q", "q", "q", "q", "q", "q", "q", "q", "q", "q", "q", "q", "q", "q", "q", "q", "n", "r", "q", "l", "8", "a" >>,
      << "c", "o", "s", "m", "o", "s", "1", "v", "l", "m", "s", "2", "r", "8", "f", "6", "x", "7", "y", "x", "j", "h", "3", "y", "n", "y", "z", "c", "7", "c", "k", "a", "r", "q", "d", "8", "a", "9", "6", "c", "k", "j", "v", "r", "p" >>,
      << "c", "o", "s", "m", "o", "s", "1", "q", "q", "q", "q", "q", "q", "q", "q", "q", "q", "q", "q", "q", "q", "q", "q", "q", "q", "q", "q", "q", "q", "q", "q", "q", "q", "q", "q", "q", "q", "q", "q", "n", "r", "q", "l", "8", "b" >>,
      [ k \in 1..40 |-> "0" ],
      << "0", "x", "0" >> }

\* an Address that was made replaces the one the caller held
Held(r) == IF IsOk(r) THEN Some(Val(r)) ELSE address

call_from_slice ==
    \E bytes \in AddressByteSamples, prefix \in AddressPrefixes :
        /\ called' = Some([op |-> "from_slice", args |-> << bytes, prefix >>,
                           result |-> Address_from_slice(bytes, prefix)])
        /\ address' = Held(Address_from_slice(bytes, prefix))
        /\ UNCHANGED notAddress

\* the text parsed is a sample or the text the last to_bech32 gave
TextsAtHand ==
    AddressTextSamples
    \cup (IF IsSome(called) /\ Unwrap(called).op = "to_bech32" /\ IsOk(Unwrap(called).result)
          THEN { Val(Unwrap(called).result) } ELSE { })

call_from_bech32 ==
    \E text \in TextsAtHand :
        /\ called' = Some([op |-> "from_bech32", args |-> << text >>,
                           result |-> Address_from_bech32(text)])
        /\ address' = Held(Address_from_bech32(text))
        /\ UNCHANGED notAddress

call_from_str ==
    \E text \in TextsAtHand :
        /\ called' = Some([op |-> "from_str", args |-> << text >>,
                           result |-> Address_from_str(text)])
        /\ address' = Held(Address_from_str(text))
        /\ UNCHANGED notAddress

\* PublicKey::to_address of either family
to_address(family, key) ==
    IF family = "Cosmos" THEN Cosmos_to_address(key) ELSE Ethermint_to_address(key)

call_to_address ==
    \E family \in { "Cosmos", "Ethermint" }, bytes \in DerivationKeys, prefix \in KeyPrefixes :
        LET key == [bytes |-> bytes, prefix |-> prefix]
        IN  /\ called' = Some([op |-> "to_address", args |-> << family, key >>,
                               result |-> to_address(family, key)])
            /\ address' = Held(to_address(family, key))
            /\ UNCHANGED notAddress

call_get_module_account_address ==
    \E module_name \in ModuleNames, prefix \in { None } \cup { Some(x) : x \in AddressPrefixes } :
        /\ called' = Some([op |-> "get_module_account_address",
                           args |-> << module_name, prefix >>,
                           result |-> get_module_account_address(module_name, prefix)])
        /\ address' = Held(get_module_account_address(module_name, prefix))
        /\ UNCHANGED notAddress

call_change_prefix ==
    /\ IsSome(address)
    /\ \E prefix \in AddressPrefixes \cup KeyPrefixes :
        /\ called' = Some([op |-> "change_prefix", args |-> << prefix >>,
                           result |-> change_prefix(Unwrap(address), prefix)])
        /\ address' = Held(change_prefix(Unwrap(address), prefix))
        /\ UNCHANGED notAddress

\* to_bech32 with the stored prefix, as the round trip has it, or another
call_to_bech32 ==
    /\ IsSome(address)
    /\ \E hrp \in { Unwrap(address).prefix, << "e", "v", "m", "o", "s" >> } :
        /\ called' = Some([op |-> "to_bech32", args |-> << hrp >>,
                           result |-> Address_to_bech32(Unwrap(address), hrp)])
        /\ UNCHANGED address
        /\ UNCHANGED notAddress

\* Display, Debug and Serialize
call_to_string ==
    /\ IsSome(address)
    /\ called' = Some([op |-> "to_string", args |-> << >>,
                       result |-> Address_to_string(Unwrap(address))])
    /\ UNCHANGED address
    /\ UNCHANGED notAddress

AddressNext ==
    \/ call_from_slice
    \/ call_from_bech32
    \/ call_from_str
    \/ call_to_address
    \/ call_get_module_account_address
    \/ call_change_prefix
    \/ call_to_bech32
    \/ call_to_string

Init == SendInit /\ BlockWaitInit /\ GatewayInit /\ PureParked /\ AddressInit
Next == SendNext
\* the send helper: two send_message calls of one key, and the chain
Spec == Init /\ [][Next]_vars

\* wait_for_next_block against a node that answers anything
SpecBlockWait == Init /\ [][BlockWaitNext]_vars

\* the callers of Address
SpecAddress == Init /\ [][AddressNext]_vars

\* one query function against a node that may never answer
SpecGateway == Init /\ [][GatewayNext]_vars

InitPure == SendInit /\ BlockWaitInit /\ GatewayInit /\ PureInit /\ AddressInit
\* get_fee_info and get_message_args as functions of the node's answers
SpecPure == InitPure /\ [][PureNext]_vars

(***************************************************************************)
(* send_message: order of the steps, broadcast, waiting                    *)
(***************************************************************************)
Broadcast(c) == broadcasts[c] # << >>
SentSequence(c) == Last(broadcasts[c]).tx.sequence

\* C1: a send_message call broadcasts at most once, in Sync mode, and only
\* after simulate_tx, get_block_params and get_message_args succeeded in that
\* order; a call that an earlier step ends has returned that step's error
\* and has broadcast nothing.
C1_BroadcastOnceAfterTheSteps ==
    \A c \in Calls :
       /\ Len(broadcasts[c]) <= 1
       /\ Broadcast(c) =>
             /\ Last(broadcasts[c]).mode = "Sync"
             /\ steps[c] = << "simulate_tx", "get_block_params", "get_message_args",
                              "broadcast_tx" >>
       /\ IsSome(early[c]) =>
             /\ IsErr(Unwrap(early[c]))
             /\ result[c] = early[c]
             /\ ~Broadcast(c)

\* the part of C1 that does not depend on how a failing step ends the call
C1_OrderAndMode ==
    \A c \in Calls :
       /\ Len(broadcasts[c]) <= 1
       /\ Broadcast(c) =>
             /\ Last(broadcasts[c]).mode = "Sync"
             /\ steps[c] = << "simulate_tx", "get_block_params", "get_message_args",
                              "broadcast_tx" >>
       /\ IsSome(early[c]) => ~Broadcast(c)

PollStep(c) == pc[c] = "wait_poll" /\ pc'[c] # "wait_poll"
PolledStatus(c) ==
    /\ Unwrap(lastAnswer'[c])[1] = Connected
    /\ Unwrap(lastAnswer'[c])[2].kind = "status"
PolledCode(c) == Unwrap(lastAnswer'[c])[2].payload[1].code

\* C2: in wait_for_tx a poll answered with the gRPC code NotFound, Unknown or
\* InvalidArgument returns nothing: the call sleeps exactly one second and,
\* the deadline not passed, polls again; a poll answered with any other gRPC
\* code returns TransactionFailed carrying the response of the broadcast.
C2_NotYetCodesPollAgain ==
    [][\A c \in Calls :
          /\ (PollStep(c) /\ PolledStatus(c)) =>
                IF PolledCode(c) \in { "NotFound", "Unknown", "InvalidArgument" }
                THEN pc'[c] = "wait_sleep" /\ result'[c] = None
                ELSE /\ pc'[c] = "done"
                     /\ result'[c] =
                           Some(Err(TransactionFailed(Unwrap(bresp[c]), elapsed'[c], None)))
                     /\ bresp'[c] = bresp[c]
          /\ (pc[c] = "wait_sleep" /\ pc'[c] # "wait_sleep") =>
                pc'[c] = "wait_check" /\ elapsed'[c] = elapsed[c] + 1
          /\ (pc[c] = "wait_check" /\ pc'[c] # "wait_check"
                /\ elapsed[c] < Unwrap(wait[c])) => pc'[c] = "wait_poll"
      ]_vars

\* a poll later than the first of its call is answered Unavailable
C2_Witness ==
    \E c \in Calls :
       /\ pc[c] = "done"
       /\ elapsed[c] >= 1
       /\ elapsed[c] < Unwrap(wait[c])
       /\ lastAnswer[c] = Some(<< Connected, Status("Unavailable", "") >>)
       /\ result[c] = Some(Err(TransactionFailed(Unwrap(bresp[c]), elapsed[c], None)))

\* C3: a send_message call with wait_timeout = Some(t) has returned by the
\* time t has passed (elapsed counts from the start of wait_for_tx only).
C3_ReturnsWithinWaitTimeout ==
    \A c \in Calls :
       (pc[c] = "done" /\ IsSome(wait[c])) => elapsed[c] <= Unwrap(wait[c])

\* C6 as stated: of two calls, the later started after the earlier returned
\* Ok, the later broadcasts a strictly greater sequence.
C6_StrictlyIncreasing ==
    \A c \in Calls : \A d \in after[c] :
       (Broadcast(c) /\ Broadcast(d)) => SentSequence(c) > SentSequence(d)

\* C6 amended: a call broadcasts the sequence and account number the node
\* reported to its get_message_args; of two sequential calls the later never
\* broadcasts a lower sequence, and a greater one only when the chain has
\* delivered a transaction of the account.
C6_SequenceIsTheReportedOne ==
    \A c \in Calls :
       Broadcast(c) =>
          /\ SentSequence(c) = Unwrap(acct[c]).sequence
          /\ Last(broadcasts[c]).tx.account_number = Unwrap(acct[c]).account_number
          /\ \A d \in after[c] :
                Broadcast(d) =>
                   /\ SentSequence(c) >= SentSequence(d)
                   /\ SentSequence(c) > SentSequence(d) =>
                         \E e \in Calls : included[e] = "delivered"

\* the second of two sequential calls broadcasts a greater sequence
C6_Witness ==
    \E c \in Calls : \E d \in after[c] :
       /\ Broadcast(c) /\ Broadcast(d)
       /\ SentSequence(c) > SentSequence(d)
       /\ SentSequence(c) = Unwrap(acct[c]).sequence

BroadcastStep(c) == pc[c] = "broadcast" /\ pc'[c] # "broadcast"

\* C7: send_transaction always puts its request to the node it connected
\* to, whatever sequence other calls of the key have broadcast, and a call is
\* refused only on the node's answer: it ends in an error only when the
\* node did not answer with a response of code 0.
C7_OnlyTheNodeRejects ==
    [][\A c \in Calls :
          BroadcastStep(c) =>
             /\ IsSome(lastAnswer'[c])
             /\ Unwrap(lastAnswer'[c])[1] = Connected => Len(broadcasts'[c]) = Len(broadcasts[c]) + 1
             /\ (/\ Unwrap(lastAnswer'[c])[1] = Connected
                 /\ Unwrap(lastAnswer'[c])[2].kind = "reply"
                 /\ Unwrap(Val(Unwrap(lastAnswer'[c])[2]).tx_response).code = 0) =>
                   IF IsSome(wait[c]) THEN pc'[c] = "wait_check"
                   ELSE result'[c] =
                           Some(Ok(Unwrap(Val(Unwrap(lastAnswer'[c])[2]).tx_response)))
      ]_vars

\* two interleaved calls have read the same sequence, both have broadcast it
\* and both have returned Ok
C7_Witness ==
    \E c \in Calls : \E d \in Calls \ { c } :
       /\ d \notin after[c] /\ c \notin after[d]
       /\ Broadcast(c) /\ Broadcast(d)
       /\ SentSequence(c) = SentSequence(d)
       /\ pc[c] = "done" /\ IsOk(Unwrap(result[c]))
       /\ pc[d] = "done" /\ IsOk(Unwrap(result[d]))

(***************************************************************************)
(* get_fee_info and get_message_args as functions                          *)
(***************************************************************************)
SimulatedGas == Unwrap(Val(input.sim).gas_info).gas_used

\* C4: get_fee_info on a simulation that reports gas_used, the block params
\* obtained: the result is GasRequiredExceedsBlockMaximum{max, required}
\* exactly when max_gas is Some(max) and gas_used > max, and otherwise the
\* Fee of the supplied coins with gas_limit = 2 x gas_used and neither payer
\* nor granter, for every 64-bit gas_used.
C4_FeeIsTwiceTheSimulatedGas ==
    (/\ fn = "get_fee_info"
     /\ IsSome(output)
     /\ IsOk(input.sim) /\ IsSome(Val(input.sim).gas_info)
     /\ IsOk(input.params)) =>
        LET max_gas == Val(input.params).max_gas
        IN  Unwrap(output) =
               IF IsSome(max_gas) /\ SimulatedGas > Unwrap(max_gas)
               THEN Err(GasRequiredExceedsBlockMaximum(Unwrap(max_gas), SimulatedGas))
               ELSE Ok([amount |-> input.fee_token, gas_limit |-> 2 * SimulatedGas,
                        payer |-> None, granter |-> None])

\* C5: get_message_args on an account the node reports: on a latest block
\* with a header of height h the MessageArgs have the account's sequence and
\* account number, the header's chain id, the supplied fee and timeout_height
\* h + block_timeout (100 when block_timeout is None); on Syncing the result
\* is NodeNotSynced, on WaitingToStart ChainNotRunning.
C5_MessageArgsFields ==
    (/\ fn = "get_message_args"
     /\ IsSome(output)
     /\ IsOk(input.acct)
     /\ IsOk(input.latest)) =>
        LET latest_block == Val(input.latest)
        IN  CASE latest_block.kind = "Syncing" -> Unwrap(output) = Err(NodeNotSynced)
              [] latest_block.kind = "WaitingToStart" -> Unwrap(output) = Err(ChainNotRunning)
              [] latest_block.kind = "Latest" ->
                    LET header == latest_block.payload[1].header
                    IN  (IsSome(header) /\ Unwrap(header).height >= 0) =>
                           Unwrap(output) =
                              Ok([sequence |-> Val(input.acct).sequence,
                                  account_number |-> Val(input.acct).account_number,
                                  chain_id |-> Unwrap(header).chain_id,
                                  fee |-> input.fee,
                                  tip |-> None,
                                  timeout_height |->
                                     Unwrap(header).height
                                     + (IF IsSome(input.timeout_block)
                                        THEN Unwrap(input.timeout_block) ELSE 100)])

(***************************************************************************)
(* the gateway calls                                                       *)
(***************************************************************************)
\* C8: no query function waits on a gateway call for longer than
\* Contact.timeout: a call the node does not answer ends by then.
C8_EveryCallTimesOut == gOp # "none" => gWaited <= ContactTimeout

\* the functions of get, auth, bank, send, gov, mint and ibc_transfer alone
C8_TimedCallsTimeOut ==
    (gOp # "none" /\ GatewayCalls[gOp] = Timed) =>
       /\ gWaited <= ContactTimeout
       /\ (gResult = None /\ gWaited = ContactTimeout) => ENABLED GatewayElapsed

(***************************************************************************)
(* wait_for_next_block                                                     *)
(***************************************************************************)
MovingPolls == { i \in 1..Len(seen) : IsOk(seen[i]) /\ Val(seen[i]).kind = "Moving" }
FirstMoving == CHOOSE i \in MovingPolls : \A j \in MovingPolls : i <= j

\* C9: wait_for_next_block returns Ok only on a poll that reports Moving at
\* a height strictly greater than that of the first Moving poll of the call,
\* which is an earlier poll: one poll never suffices.
C9_OkNeedsAHigherBlock ==
    bResult = Some(Ok("unit")) =>
       /\ Len(seen) >= 2
       /\ Len(seen) \in MovingPolls
       /\ FirstMoving < Len(seen)
       /\ Val(Last(seen)).payload[1] > Val(seen[FirstMoving]).payload[1]
       /\ last_height = Some(Val(seen[FirstMoving]).payload[1])

\* Ok after a poll that failed and two Moving polls
C9_Witness ==
    /\ bResult = Some(Ok("unit"))
    /\ Len(seen) >= 3
    /\ \E i \in 1..Len(seen) : IsErr(seen[i])

\* C10: a poll that reports Syncing ends the call at once with
\* NodeNotSynced, one that reports WaitingToStart with ChainNotRunning,
\* whether or not a height was recorded before: it is the last poll of the
\* call and no sleep follows it.
C10_SyncingAndWaitingEndTheCall ==
    \A i \in 1..Len(seen) :
       (IsOk(seen[i]) /\ Val(seen[i]).kind \in { "Syncing", "WaitingToStart" }) =>
          /\ i = Len(seen)
          /\ bpc = "done"
          /\ bResult = Some(Err(IF Val(seen[i]).kind = "Syncing" THEN NodeNotSynced
                                ELSE ChainNotRunning))

\* Syncing is reported after a height was recorded
C10_Witness ==
    /\ IsSome(last_height)
    /\ Len(seen) >= 2
    /\ Last(seen) = Ok(Syncing)
    /\ bResult = Some(Err(NodeNotSynced))

\* the polls of the call that neither end it nor report a higher block
Unfruitful(polls) ==
    \A i \in 1..Len(polls) :
       \/ IsErr(polls[i])
       \/ /\ Val(polls[i]).kind = "Moving"
          /\ \A j \in 1..(i - 1) :
                (IsOk(polls[j]) /\ Val(polls[j]).kind = "Moving") =>
                   Val(polls[i]).payload[1] <= Val(polls[j]).payload[1]

\* C11: a get_chain_status poll that fails does not end wait_for_next_block:
\* nothing is returned, last_height stays as it was and the call sleeps one
\* second and tests the deadline again; a call in which no poll reported a
\* higher block, Syncing or WaitingToStart ends with
\* NoBlockProduced{time = timeout}, never with the error of a poll.
C11_FailedPollsAreSwallowed ==
    [][/\ (bpc = "poll" /\ bpc' # "poll" /\ IsErr(Last(seen'))) =>
             /\ bpc' = "sleep"
             /\ bResult' = None
             /\ last_height' = last_height
       /\ (bpc = "sleep" /\ bpc' # "sleep") =>
             /\ bpc' = "check"
             /\ bElapsed' = bElapsed + 1
             /\ last_height' = last_height
       /\ (bpc = "check" /\ bpc' # "check" /\ bElapsed < BlockWaitSecs) => bpc' = "poll"
       /\ (bpc # "done" /\ bpc' = "done" /\ Unfruitful(seen')) =>
             bResult' = Some(Err(NoBlockProduced(BlockWaitSecs)))
      ]_vars

\* a poll failed after a height was recorded, and the call ended at the
\* deadline
C11_Witness ==
    /\ bpc = "done"
    /\ bResult = Some(Err(NoBlockProduced(BlockWaitSecs)))
    /\ IsSome(last_height)
    /\ \E i \in 1..Len(seen) : \E j \in (i + 1)..Len(seen) :
          /\ IsOk(seen[i]) /\ Val(seen[i]).kind = "Moving"
          /\ IsErr(seen[j])

\* the consensus params query failed with the gRPC code Unimplemented
ConsensusUnimplemented(in) ==
    /\ in.conn = Connected
    /\ in.ans.kind = "status"
    /\ in.ans.payload[1].code = "Unimplemented"

InSeq(x, seq) == \E i \in 1..Len(seq) : seq[i] = x

\* C12: get_block_params calls get_block_params_fallback exactly when the
\* consensus params query answered with the gRPC code Unimplemented, and then
\* returns what the fallback returns; every other failure of the consensus
\* query is returned as an error and a reply is decoded, both without the
\* legacy query.
C12_FallbackOnlyOnUnimplemented ==
    (fn = "get_block_params" /\ IsSome(output)) =>
       LET out == Unwrap(output)
           fell == InSeq("get_block_params_fallback", out.calls)
       IN  /\ fell <=> ConsensusUnimplemented(input)
           /\ fell => out.ret = get_block_params_fallback(input.legacyConn, input.legacyAns)
           /\ (input.conn = Connected /\ input.ans.kind = "status" /\ ~fell) =>
                 out.ret = Err(RequestError(input.ans.payload[1]))
           /\ (input.conn = Connected /\ input.ans.kind = "no_answer") => IsErr(out.ret)
           /\ input.conn # Connected => (IsErr(out.ret) /\ out.calls = << >>)

\* the consensus query was Unimplemented and the legacy parameters came back
C12_Witness ==
    /\ fn = "get_block_params"
    /\ IsSome(output)
    /\ ConsensusUnimplemented(input)
    /\ Unwrap(output).calls = << "ConsensusQueryClient::params", "get_block_params_fallback" >>
    /\ IsOk(Unwrap(output).ret)

\* C13: for a tx response of codespace "sdk" and code 13 whose raw log is
\* "insufficient fees; got: X required: Y: insufficient fee",
\* determine_min_fees_and_gas gives InsufficientFees with exactly the coins
\* written in Y, in order, and check_for_sdk_error returns it as its error,
\* whatever X is.  Stated for the responses whose gas_used does not exceed
\* gas_wanted, which are the ones that reach the parsing of the raw log.
C13_MinFeesAreTheRequiredCoins ==
    (/\ fn = "check_for_sdk_error"
     /\ IsSome(output)
     /\ InsufficientFeeResponse(input).gas_used <= InsufficientFeeResponse(input).gas_wanted) =>
       LET fees == [kind |-> "InsufficientFees", payload |-> << input.required >>]
       IN  /\ Unwrap(output).fee_info = Some(fees)
           /\ Unwrap(output).ret = Err(InsufficientFees(fees))

\* the codes of the enumeration
SdkCodes == 1..40 \cup { 111222 }

\* C14: SdkErrorCode covers exactly the codes 1..40 and 111222: from_code
\* undoes get_code on every variant, get_code undoes from_code wherever
\* from_code gives a variant, no two variants have one code, and from_code
\* gives None for every code outside 1..40 and 111222.
C14_CodesAndVariantsCorrespond ==
    (fn = "SdkErrorCode" /\ IsSome(output)) =>
       LET out == Unwrap(output)
       IN  /\ "variant" \in DOMAIN input =>
                /\ out.back = Some(input.variant)
                /\ out.code \in SdkCodes
                /\ \A i \in 1..Len(SdkErrorCode) :
                      get_code(SdkErrorCode[i]) = out.code => SdkErrorCode[i] = input.variant
           /\ "code" \in DOMAIN input =>
                /\ IsSome(out.variant) => get_code(Unwrap(out.variant)) = input.code
                /\ IsSome(out.variant) <=> input.code \in SdkCodes

\* ErrPanic, the variant whose code is out of the sequence, has gone to
\* 111222 and back
C14_Witness ==
    /\ fn = "SdkErrorCode"
    /\ IsSome(output)
    /\ "variant" \in DOMAIN input
    /\ input.variant = "ErrPanic"
    /\ Unwrap(output) = [code |-> 111222, back |-> Some("ErrPanic")]

\* C15: decode_from_any returns the variant of the type_url of the Any when
\* that is the type_url of one of the six account messages, and DecodeError
\* when it is the type_url of none of them.
C15_VariantIsThatOfTheTypeUrl ==
    (fn = "decode_from_any" /\ IsSome(output)) =>
       LET out == Unwrap(output)
       IN  /\ \A n \in 1..Len(AccountTypeUrls) :
                 input.type_url = AccountTypeUrls[n] =>
                    (IsOk(out) /\ Val(out).variant = AccountTypeNames[n])
           /\ input.type_url = OtherTypeUrl => out = Err(DecodeError)

\* C16: a transaction signed by build_tx / sign_std_msg holds exactly one
\* signature: 64 bytes (r then s) under a Cosmos key, 65 bytes (r, s, then v
\* with v 0 or 1) under an Ethermint key.
C16_OneSignatureOfTheFamilysForm ==
    (fn = "build_tx" /\ IsSome(output) /\ IsOk(Unwrap(output))) =>
       LET signatures == Val(Unwrap(output)).signatures
       IN  /\ Len(signatures) = 1
           /\ input.key.family = "Cosmos" => Len(signatures[1]) = 64
           /\ input.key.family = "Ethermint" =>
                 (Len(signatures[1]) = 65 /\ signatures[1][65] \in { 0, 1 })

\* the key is the big-endian encoding of (digest mod (n - 1)) + 1, a scalar
\* of 1..(n - 1)
KeyIsTheReducedDigest ==
    LET key == Unwrap(output).key
        value == (from_be_bytes(input.sec_hash) % (CurveN - 1)) + 1
    IN  /\ Len(key) = KeyBytes
        /\ \A k \in 1..KeyBytes : key[k] \in 0..255
        /\ from_be_bytes(key) = value
        /\ value \in 1..(CurveN - 1)
        /\ IsOk(SecretKey_from_slice(key))

\* C17 as stated: from_secret gives the encoding of
\* (SHA-256(input) mod (n - 1)) + 1, which lies in 1..(n - 1), and
\* to_public_key on that key never fails.
C17_KeyValidAndPublicKeyNeverFails ==
    (fn = "from_secret" /\ IsSome(output)) =>
       (KeyIsTheReducedDigest /\ IsOk(Unwrap(output).public))

\* C17, amended: from_secret gives the encoding of
\* (SHA-256(input) mod (n - 1)) + 1, which lies in 1..(n - 1); to_public_key
\* on that key never fails for the key, and succeeds whenever the prefix is
\* one that ArrayString::new accepts (at most 32 bytes).
C17_KeyValidAndPublicKeyFailsOnlyOnThePrefix ==
    (fn = "from_secret" /\ IsSome(output)) =>
       /\ KeyIsTheReducedDigest
       /\ Unwrap(output).public # Err(Error("CurveError", << >>))
       /\ Len(input.prefix) <= MAX_LEN =>
             /\ IsOk(Unwrap(output).public)
             /\ Val(Unwrap(output).public).prefix = input.prefix
       /\ Len(input.prefix) > MAX_LEN =>
             Unwrap(output).public = Err(Error("PrefixTooLong", << >>))

\* the digest equal to n - 1, which reduces to 0, gave the key 1, and its
\* public key was made
C17_Witness ==
    /\ fn = "from_secret"
    /\ IsSome(output)
    /\ from_be_bytes(input.sec_hash) = CurveN - 1
    /\ from_be_bytes(Unwrap(output).key) = 1
    /\ IsOk(Unwrap(output).public)

\* a segment: decimal digits, then at most one '
IsSegment(seg) ==
    LET digits == IF seg # << >> /\ seg[Len(seg)] = "'"
                  THEN SubSeq(seg, 1, Len(seg) - 1) ELSE seg
    IN  digits # << >> /\ \A k \in 1..Len(digits) : digits[k] \in Digits

\* the form m/<segment>(/<segment>)*
IsPathSpec(hd_path) ==
    LET parts == Split(hd_path, "/")
    IN  /\ Len(parts) >= 2
        /\ parts[1] = << "m" >>
        /\ \A k \in 2..Len(parts) : IsSegment(parts[k])

\* C18: from_hd_wallet_path gives a key only for a path of the form
\* m/<segment>(/<segment>)*, a segment being an unsigned integer with at most
\* one ' after it; for every other path, with a phrase that is a mnemonic, it
\* returns InvalidPathSpec and does not abort.
C18_OnlyPathSpecsAreAccepted ==
    (fn = "from_hd_wallet_path" /\ IsSome(output)) =>
       /\ IsOk(Unwrap(output)) => IsPathSpec(input.hd_path)
       /\ (~IsPathSpec(input.hd_path) /\ IsOk(input.key_import)) =>
             Unwrap(output) = Err(InvalidPathSpec(input.hd_path))

\* the text is 2 * KeyBytes hex characters (64 for the key of 32 bytes)
IsKeyHex(text) ==
    Len(text) = 2 * KeyBytes /\ \A k \in 1..Len(text) : text[k] \in HexDigits

\* the bytes such a text spells, two characters a byte
KeyHexBytes(text) ==
    [ k \in 1..KeyBytes |-> 16 * HexValue[text[2 * k - 1]] + HexValue[text[2 * k]] ]

\* C19 as stated: from_str(s) is the raw key when s is 64 hex characters, and
\* is what from_phrase(s, "") returns for every other s.
C19_RawKeyOrFromPhrase ==
    (fn = "from_str" /\ IsSome(output)) =>
       IF IsKeyHex(input.s) THEN Unwrap(output) = Ok([raw |-> KeyHexBytes(input.s)])
       ELSE Unwrap(output) \in from_phrase(input.s)

\* C19, amended: from_str(s) is the raw key when s is 64 hex characters, and
\* whenever hex_str_to_bytes(s) gives 32 bytes; it is HexDecodeErrorWrongLength
\* when hex_str_to_bytes(s) gives another number of bytes; and it is what
\* from_phrase(s, "") returns when hex_str_to_bytes(s) fails.
C19_RawKeyWrongLengthOrFromPhrase ==
    (fn = "from_str" /\ IsSome(output)) =>
       LET bytes == hex_str_to_bytes(input.s)
       IN  /\ IsKeyHex(input.s) => Unwrap(output) = Ok([raw |-> KeyHexBytes(input.s)])
           /\ (IsOk(bytes) /\ Len(Val(bytes)) = KeyBytes) =>
                 Unwrap(output) = Ok([raw |-> Val(bytes)])
           /\ (IsOk(bytes) /\ Len(Val(bytes)) # KeyBytes) =>
                 Unwrap(output) = Err(Error("HexDecodeErrorWrongLength", << >>))
           /\ IsErr(bytes) => Unwrap(output) \in from_phrase(input.s)

\* a phrase of twelve words, which is no hex, gave the key of the default
\* path of its mnemonic
C19_Witness ==
    /\ fn = "from_str"
    /\ IsSome(output)
    /\ IsErr(hex_str_to_bytes(input.s))
    /\ Len(Split(input.s, " ")) = 12
    /\ IsOk(Unwrap(output))
    /\ Val(Unwrap(output)).mnemonic = input.s
    /\ Len(Val(Unwrap(output)).path) = 5

\* C20: from_str accepts the bech32 text of a key, the hex text of 33 bytes
\* and the standard base64 text of 33 bytes, and the key it gives holds
\* exactly the 33 bytes the text encodes.
C20_EveryEncodingIsAccepted ==
    (fn = "PublicKey::from_str" /\ IsSome(output)) =>
       /\ IsOk(Unwrap(output))
       /\ Val(Unwrap(output)).bytes = input.bytes

(***************************************************************************)
(* Address: prefixes, rendering, round trip, derivation                    *)
(***************************************************************************)
\* C21: every Address a caller comes to hold has a prefix that is not empty,
\* has at most 32 characters and is a valid bech32 human-readable part, and
\* rendering an Address (Display, Debug, Serialize) always succeeds.
C21_PrefixIsAnHrpAndRenders ==
    /\ IsSome(address) =>
          /\ Unwrap(address).prefix # << >>
          /\ Len(Unwrap(address).prefix) <= MAX_LEN
          /\ IsOk(check_hrp(Unwrap(address).prefix))
    /\ (IsSome(called) /\ Unwrap(called).op = "to_string") => IsOk(Unwrap(called).result)

\* C22: to_bech32 of the Address held, with its stored prefix, succeeds, and
\* from_bech32 of the text it gave succeeds with that very Address: the same
\* variant, bytes and prefix.
C22_Bech32RoundTrip ==
    [][ /\ (Unwrap(called').op = "to_bech32"
            /\ Unwrap(called').args = << Unwrap(address).prefix >>)
           => IsOk(Unwrap(called').result)
        /\ (/\ IsSome(called)
            /\ Unwrap(called).op = "to_bech32"
            /\ Unwrap(called).args = << Unwrap(address).prefix >>
            /\ IsOk(Unwrap(called).result)
            /\ Unwrap(called').op = "from_bech32"
            /\ Unwrap(called').args = << Val(Unwrap(called).result) >>)
           => Unwrap(called').result = Ok(Unwrap(address)) ]_vars

(***************************************************************************)
(* Coin::from_str                                                          *)
(***************************************************************************)
\* the place of the first alphabetic character of a text, 0 when it has none
FirstAlphabetic(text) ==
    IF \E k \in 1..Len(text) : text[k] \in Alphabetic
    THEN CHOOSE k \in 1..Len(text) :
            text[k] \in Alphabetic /\ \A j \in 1..(k - 1) : text[j] \notin Alphabetic
    ELSE 0

\* C23: the Coin that from_str gives has the text from the first alphabetic
\* character on as its denom and the value of the text before it as its
\* amount; and from_str of the text Display writes for a coin of an
\* alphabetic denom gives that coin.
C23_SplitAtFirstAlphabeticAndRoundTrip ==
    (fn = "Coin::from_str" /\ IsSome(output)) =>
       /\ IsSome(Unwrap(output)) =>
             LET value == Trim(input.text)
                 coin == Unwrap(Unwrap(output))
             IN  /\ FirstAlphabetic(value) > 1
                 /\ coin.denom = SubSeq(value, FirstAlphabetic(value), Len(value))
                 /\ coin.amount = DecimalValue(SubSeq(value, 1, FirstAlphabetic(value) - 1))
       /\ IsSome(input.coin) => Unwrap(output) = input.coin

\* the coin 100footoken came back from the text Display writes for it
C23_Witness ==
    /\ fn = "Coin::from_str"
    /\ IsSome(output)
    /\ input.coin = Some(Coin(100, << "f", "o", "o", "t", "o", "k", "e", "n" >>))
    /\ Unwrap(output) = input.coin

(***************************************************************************)
(* to_address                                                              *)
(***************************************************************************)
\* the prefix without one "pub" at its end, when it ends so
WithoutPub(prefix) ==
    IF ends_with(prefix, Pub) THEN SubSeq(prefix, 1, Len(prefix) - Len(Pub)) ELSE prefix

\* C24: in both key families, to_address of a public key (whose bytes are a
\* point of the curve) gives an Address whose prefix is the stored prefix
\* without the "pub" at its end, and the stored prefix itself when it does not
\* end in "pub".
C24_AddressPrefixIsTheKeysWithoutPub ==
    (/\ IsSome(called)
     /\ Unwrap(called).op = "to_address"
     /\ IsSome(Keccak256Tail(Unwrap(called).args[2].bytes))) =>
       /\ IsOk(Unwrap(called).result)
       /\ Val(Unwrap(called).result).prefix = WithoutPub(Unwrap(called).args[2].prefix)

(***************************************************************************)
(* get_child_key: the index of a hardened child                            *)
(***************************************************************************)
\* the parts of a path after the first all parse as integers of the width
SegmentsParse(hd_path) ==
    LET parts == Tail(Split(hd_path, "/"))
    IN  /\ parts # << >>
        /\ \A k \in 1..Len(parts) : IsSome(ParseU32(trim_matches(parts[k], "'")))

\* the child numbers of a path: i for a part without ', i + 2^31 (half the
\* modulus of the width) for a part with one
ChildNumbers(hd_path) ==
    LET parts == Tail(Split(hd_path, "/"))
    IN  [ k \in 1..Len(parts) |->
            IF Contains(parts[k], "'")
            THEN Unwrap(ParseU32(trim_matches(parts[k], "'"))) + (U32Modulus \div 2)
            ELSE Unwrap(ParseU32(parts[k])) ]

\* C25: for a path the parser accepts, every hardened segment of value i is
\* derived with the index i + 2^31 (and every other with i): the derivation
\* returns the key of these child numbers, the addition neither wraps nor
\* aborts.
C25_HardenedIndexIsIPlusHalf ==
    (/\ fn = "from_hd_wallet_path"
     /\ IsSome(output)
     /\ IsOk(input.key_import)
     /\ IsPathSpec(input.hd_path)
     /\ SegmentsParse(input.hd_path)) =>
       Unwrap(output) = Ok([mnemonic |-> Val(input.key_import),
                            path |-> ChildNumbers(input.hd_path)])

(***************************************************************************)
(* get_block_params on the two endpoints                                   *)
(***************************************************************************)
\* C26: get_block_params gives the same result for the same parameters of a
\* chain on the consensus params endpoint and on the legacy fallback, and for
\* a chain of unlimited gas (max_gas = -1) it gives Ok with max_gas = None on
\* both.
C26_BothEndpointsAgree ==
    (fn = "get_block_params of a chain" /\ IsSome(output)) =>
       /\ Unwrap(output).consensus = Unwrap(output).legacy
       /\ input.max_gas = 0 - 1 =>
             /\ IsOk(Unwrap(output).consensus)
             /\ Val(Unwrap(output).consensus).max_gas = None
             /\ IsOk(Unwrap(output).legacy)
             /\ Val(Unwrap(output).legacy).max_gas = None

(***************************************************************************)
(* get_latest_block                                                        *)
(***************************************************************************)
\* C27: get_latest_block never aborts its caller: whatever the node answers
\* it returns a LatestBlock or a CosmosGrpcError; and on the answers for which
\* get_chain_status gives WaitingToStart it gives LatestBlock::WaitingToStart.
C27_LatestBlockNeverAborts ==
    (fn = "get_latest_block" /\ IsSome(output)) =>
       /\ ~IsPanic(Unwrap(output).latest)
       /\ Unwrap(output).status = Ok(WaitingToStart) =>
             Unwrap(output).latest = Ok(LatestBlockWaitingToStart)

\* C28: check_for_sdk_error returns Err exactly for the responses whose
\* gas_used exceeds gas_wanted or whose codespace is "sdk" with a code of
\* the enumeration; the excess of gas comes first and gives
\* InsufficientFees{InsufficientGas} whatever the code; a response of code 13
\* whose raw log has no third ':'-separated part fails as TransactionFailed
\* with ErrInsufficientFee; a response of another codespace or of an unknown
\* code is Ok.
C28_ErrIffGasOrKnownSdkCode ==
    (fn = "check_for_sdk_error of a response" /\ IsSome(output)) =>
       LET ret == Unwrap(output).ret
           gas == input.gas_used > input.gas_wanted
           known == input.codespace = "sdk" /\ input.code \in SdkCodes
       IN  /\ IsErr(ret) <=> (gas \/ known)
           /\ gas => ret = Err(InsufficientFees([kind |-> "InsufficientGas",
                                                 payload |-> << AsU64(input.gas_used) >>]))
           /\ (~gas /\ known /\ input.code = 13 /\ Len(Split(input.raw_log, ":")) < 3) =>
                  ret = Err(TransactionFailed(input, 0, Some("ErrInsufficientFee")))
           /\ (~gas /\ ~known) => ret = Ok("unit")

\* a response of codespace "sdk" and code 13 whose raw log has two parts and
\* whose gas_used does not exceed gas_wanted has been checked and refused
C28_Witness ==
    /\ fn = "check_for_sdk_error of a response"
    /\ IsSome(output)
    /\ input.code = 13
    /\ input.gas_used <= input.gas_wanted
    /\ input.raw_log = << "a", ":", "b" >>
    /\ input.codespace = "sdk"
    /\ IsErr(Unwrap(output).ret)

\* the call has just had a get_tx_by_hash of its wait_for_tx answered
Polled(c) ==
    /\ pc[c] = "wait_poll"
    /\ pc'[c] # "wait_poll"

\* C29: in wait_for_tx, a failure of get_tx_by_hash that is no gRPC request
\* error (the connection failed, or the connect or the request did not
\* finish within Contact.timeout) ends the wait at that poll and is what the
\* caller is returned, as it is: the wait does not sleep and poll again, and
\* the error is not made a TransactionFailed.
C29_OtherFailuresEndTheWait ==
    [][\A c \in Calls :
          (/\ Polled(c)
           /\ \/ Unwrap(lastAnswer'[c])[1] # Connected
              \/ Unwrap(lastAnswer'[c])[2] = NoAnswer) =>
             /\ pc'[c] = "done"
             /\ result'[c] = Some(Err(GrpcFailure(
                     IF Unwrap(lastAnswer'[c])[1] # Connected
                     THEN Unwrap(lastAnswer'[c])[1] ELSE Unwrap(lastAnswer'[c])[2])))
             /\ Val(Unwrap(result'[c])).kind = "ConnectionError"
             /\ elapsed'[c] - elapsed[c] <= 2 * ContactTimeout]_vars

\* a wait_for_tx ended before its deadline at a poll whose request the node
\* did not answer within Contact.timeout, with the ConnectionError of it
C29_Witness ==
    \E c \in Calls :
       /\ pc[c] = "done"
       /\ IsSome(bresp[c])
       /\ IsSome(wait[c])
       /\ lastAnswer[c] = Some(<< Connected, NoAnswer >>)
       /\ elapsed[c] < Unwrap(wait[c])
       /\ result[c] = Some(Err(FromElapsed))

\* C30: wait_for_tx returns the first tx_response a poll finds, as it is and
\* without check_for_sdk_error; a poll answered without a tx_response is
\* taken for 'not yet' and followed by the sleep.  So a send_message that
\* waits can return Ok with a response that check_for_sdk_error refuses.
C30_FirstTxResponseIsReturnedUnchecked ==
    [][\A c \in Calls :
          (/\ Polled(c)
           /\ Unwrap(lastAnswer'[c])[1] = Connected
           /\ Unwrap(lastAnswer'[c])[2].kind = "reply") =>
             LET found == Val(Unwrap(lastAnswer'[c])[2]).tx_response
             IN  IF IsSome(found)
                 THEN /\ pc'[c] = "done"
                      /\ result'[c] = Some(Ok(Unwrap(found)))
                 ELSE /\ pc'[c] = "wait_sleep"
                      /\ result'[c] = None]_vars

\* a send_message that waited has returned Ok with a response of codespace
\* "sdk" and a code of the enumeration, which check_for_sdk_error refuses
C30_Witness ==
    \E c \in Calls :
       /\ pc[c] = "done"
       /\ IsSome(wait[c])
       /\ IsOk(Unwrap(result[c]))
       /\ Val(Unwrap(result[c])).codespace = "sdk"
       /\ Val(Unwrap(result[c])).code \in SdkCodes
       /\ IsErr(check_for_sdk_error(Val(Unwrap(result[c]))))
       /\ ~IsErr(check_for_sdk_error(Unwrap(bresp[c])))

====
